---------------------------- MODULE Spec2Model ----------------------------
(***************************************************************************)
(* A model of the balldrop simulation engine: the platform factory and its *)
(* lane generator (src/js/utils/helpers.js), the ball's air-state machine  *)
(* (src/js/entities/platform.js, second half), the collision resolver      *)
(* (src/js/systems/collision.js), the key handlers (src/js/config.js) and  *)
(* the jetpack (src/unnamed/part_004).                                     *)
(*                                                                         *)
(* The session controller (src/unnamed/part_000), the level system        *)
(* (src/unnamed/part_001) and the grab (src/js/entities/abilities.js) are  *)
(* modelled as one tick action and its handlers.                           *)
(*                                                                         *)
(* Seventeen specifications share the variables:                           *)
(*   SpecGen   the platform factory: createStartingPlatforms,              *)
(*             createPlatform, addPlatformsAsNeeded,                       *)
(*             addPlatformsForNextLevel, updateMovingPlatforms,            *)
(*             cleanupPlatforms;                                           *)
(*   SpecBall  the ball under key and touch input on a course with         *)
(*             extra-jump power-ups: the physics step, the collision       *)
(*             resolver, the pickups;                                      *)
(*   SpecJet   the ball under key input on a course with jetpack           *)
(*             power-ups;                                                  *)
(*   SpecSpeed the ball under key input on a course with both kinds of     *)
(*             trampoline and no power-up;                                 *)
(*   SpecGoal  the whole tick on a course with a moving platform and the   *)
(*             goal platform, and the goal-reached callback;               *)
(*   SpecSession the whole tick over the distance of a level, with the     *)
(*             delayed callbacks and restartGame;                          *)
(*   SpecGrab  the whole tick with grab power-ups, the grab handlers of    *)
(*             keyboard and touch, and restartGame;                        *)
(*   SpecFall  the resolver and checkFallOutOfBounds applied to platform   *)
(*             sets and ball positions drawn from bounded sets;            *)
(*   SpecRestart restartGame applied to sessions under way;                *)
(*   SpecLeave updateBallPosition applied to ball states;                  *)
(*   SpecRide  the ball on a moving platform, in x and y, with positions   *)
(*             in 1/600 of a world unit;                                   *)
(*   SpecMoving createPlatform applied to levels and draws;                *)
(*   SpecPickup checkPowerUpCollisions applied to lists of power-ups;      *)
(*   SpecCredit the ball under key input with restartGame, for the         *)
(*             extra-jump credit;                                          *)
(*   SpecExecute the grab's operations applied to grab states;             *)
(*   SpecFuel  the jetpack's tick, its key handlers, the fuel pickup and   *)
(*             restartGame from every fuel level;                          *)
(*   SpecNeeded the while loop of addPlatformsAsNeeded followed to its     *)
(*             end, under weak fairness of its iteration.                  *)
(* From SpecFall on, except in SpecCredit, the function applied and its    *)
(* result are kept in the variable probe.                                  *)
(*                                                                         *)
(* Units.  Heights and depths (y, z) are whole world units.  Vertical      *)
(* velocity is counted in 1/600 of a world unit per frame, base speed in   *)
(* steps of 0.025, time in frames of 1/60 s, Math.random() draws in        *)
(* hundredths (thousandths for the effect roll).  The x coordinate is not  *)
(* tracked; the ball's position is kept as the platform whose collision    *)
(* box holds it.  In the session the distance rolled is counted in eighths *)
(* of a world unit and the delays of the callbacks in frames.              *)
(***************************************************************************)
EXTENDS Integers, Sequences, FiniteSets, TLC

VARIABLES
    \* ---- platform factory (helpers.js:381-385)
    platforms,              \* the platform set, in array order
    lastPlatformPosition,   \* [y, z] of the last spawn (or its override)
    lastPlatformType,       \* the last lane chosen (or its override)
    \* ---- position of the factory's callers inside their loops
    genMode,                \* which generation loop is running, if any
    genLeft,                \* iterations the running counted loop still owes
    nextLevelGenerated,     \* the next level's platforms were generated (75% mark passed)
    created,                \* createPlatform calls followed this session
    spawnTrace,             \* history: spawn y of the last two platforms
    laneTrace,              \* history: lane before / lane of the last platform
    \* ---- session (part_000:94-112)
    level,
    speed,
    jetpackFuel,
    isJetpackActive,
    gameStarted,
    ballReleased,
    gameOver,
    gameState,              \* window.gameState: the values the last frame saw
    \* ---- ball (platform.js:1051-1060)
    ballVelocityY,
    isJumping,
    hasDoubleJumped,
    jumpChargeTime,
    airEntryMethod,
    wasOnPlatform,
    extraJumps,
    \* ---- where the ball is: index in platforms of the platform whose
    \* collision box holds the ball's position, 0 when there is none
    ballOn,
    \* ---- input (config.js:172, 520-540)
    keysSpace,
    touchJumpActive,
    virtualSpace,
    \* ---- the resolver's last result and the history the claims read
    powerUpsAhead,          \* kinds of power-up spawned along the course
    collisionResult,        \* what the last tick's resolver saw and left
    lastJump,               \* the jump() call made since the last tick
    doubleJumps,            \* jump(true) calls since the ball was last grounded
    rearms,                 \* double-jump flag re-armed in the air since then
    \* ---- session controller (part_000:97-113) and grab (abilities.js:22-26)
    isPaused,
    isGrabbing,
    grabCount,
    redFlagPlatformReached,
    score,
    distanceTraveled,
    isGeneratingNextLevel,
    isTransitioning,
    timers,                 \* pending setTimeout callbacks: frames left, -1 for none
    ballZ,                  \* -ball.position.z, in eighths of a world unit
    clawAbove,              \* claw.position.y - ball.position.y, world units
    \* ---- history of the session the claims read
    generations,            \* addPlatformsForNextLevel calls made on this level
    endGameCalls,           \* endGame calls since the session started
    tickTrace,              \* what the last update() call did
    \* ---- a function of the program applied on its own
    probe                   \* its arguments and what it returned

sessVars == <<isPaused, isGrabbing, grabCount, redFlagPlatformReached, score,
              distanceTraveled, isGeneratingNextLevel, isTransitioning, timers,
              ballZ, clawAbove, generations, endGameCalls, tickTrace,
              probe>>
genVars  == <<platforms, lastPlatformPosition, lastPlatformType, genMode,
              genLeft, nextLevelGenerated, created, spawnTrace, laneTrace, level,
              sessVars>>
ballVars == <<speed, jetpackFuel, isJetpackActive, gameStarted, ballReleased,
              gameOver, gameState, ballVelocityY, isJumping, hasDoubleJumped,
              jumpChargeTime, airEntryMethod, wasOnPlatform, extraJumps, ballOn,
              keysSpace, touchJumpActive, virtualSpace, powerUpsAhead,
              collisionResult,
              lastJump, doubleJumps, rearms,
              sessVars>>
vars     == <<genVars, ballVars>>

-----------------------------------------------------------------------------
(* Bounds of the model.                                                    *)

\* createPlatform calls followed one by one in a session; the other
\* iterations of the generation loops are summarised by SkipIterations.
MaxCreated == 2
\* Highest level the session reaches.
MaxLevel == 2
\* Platforms tracked in the platform set: those nearest the frontier.
MaxTracked == 2

-----------------------------------------------------------------------------
(* Configuration (config.js).                                              *)

PLATFORM_TYPES ==
    << "far-far-left", "far-left", "left", "center-left", "center",
       "center-right", "right", "far-right", "far-far-right" >>

platformsPerLevel == 20
platformSpawnZ == -1000

\* PLATFORM_MOVEMENT ranges
verticalRange == 5
diagonalRange == 7
orbitalRadius == 8
pendulumLength == 12
figure8ScaleY == 5
MOVEMENT_TYPES ==
    << "horizontal", "vertical", "diagonal", "orbital", "figure8", "pendulum" >>

Min(a, b) == IF a < b THEN a ELSE b
Abs(a) == IF a < 0 THEN -a ELSE a

\* Position of a lane in the 9-lane ordering.
LaneIndex(lane) == CHOOSE i \in 1..Len(PLATFORM_TYPES) : PLATFORM_TYPES[i] = lane

-----------------------------------------------------------------------------
(* The lane generator: createPlatform, helpers.js:443-488.                 *)
(* rand is the Math.random() draw in hundredths, 0..99.                    *)

\* Faulty lane generators: one that stays in its lane, one that goes from
\* the centre to the left edge and stays there.
NextLaneStay(last, rand) == last

NextLaneEdgeLoop(last, rand) ==
    IF last = "center" THEN "far-far-left" ELSE last

NextLane(last, rand) ==
    CASE last = "far-far-left" -> "far-left"
      [] last = "far-left" ->
            IF rand < 30 THEN "far-far-left"
            ELSE IF rand < 70 THEN "left" ELSE "center-left"
      [] last = "left" ->
            IF rand < 30 THEN "far-left"
            ELSE IF rand < 70 THEN "center-left" ELSE "center"
      [] last = "center-left" ->
            IF rand < 30 THEN "left"
            ELSE IF rand < 70 THEN "center" ELSE "center-right"
      [] last = "center" ->
            IF rand < 15 THEN "far-left"
            ELSE IF rand < 30 THEN "left"
            ELSE IF rand < 45 THEN "center-left"
            ELSE IF rand < 60 THEN "center-right"
            ELSE IF rand < 75 THEN "right"
            ELSE IF rand < 90 THEN "far-right"
            ELSE IF rand < 95 THEN "far-far-left"
            ELSE "far-far-right"
      [] last = "center-right" ->
            IF rand < 30 THEN "center"
            ELSE IF rand < 70 THEN "right" ELSE "far-right"
      [] last = "right" ->
            IF rand < 30 THEN "center-right"
            ELSE IF rand < 70 THEN "far-right" ELSE "far-far-right"
      [] last = "far-right" ->
            IF rand < 70 THEN "right" ELSE "far-far-right"
      [] last = "far-far-right" -> "far-right"

\* One representative draw for every branch of the table.
RandValues == {0, 15, 30, 45, 60, 70, 75, 90, 95}

\* Lanes the generator can be in after n more platforms.
RECURSIVE LanesAfter(_, _)
LanesAfter(lanes, n) ==
    IF n = 0 THEN lanes
    ELSE LanesAfter({NextLane(l, r) : l \in lanes, r \in RandValues}, n - 1)

-----------------------------------------------------------------------------
(* The random draws of one createPlatform call, in the order of the code.  *)
(* Draws are hundredths of Math.random(), typeRoll is in thousandths.      *)

BaseDraw ==
    [ laneRand |-> 30,          \* helpers.js:440
      heightVariation |-> 0,    \* helpers.js:529
      descentRand |-> 0,        \* helpers.js:532
      gapRand |-> 0,            \* helpers.js:539
      isLongRoll |-> 50,        \* helpers.js:544
      sizeRand |-> 0,           \* helpers.js:551-556
      typeRoll |-> 500,         \* helpers.js:577
      level2Roll |-> 70,        \* helpers.js:614
      moveRoll |-> 50,          \* helpers.js:615
      hvRoll |-> 30,            \* helpers.js:624
      movementTypeRand |-> 0,   \* helpers.js:627-630
      progressRand |-> 0,       \* helpers.js:777
      axisRoll |-> 70 ]         \* helpers.js:808

\* The draws explored: the base draw with one group of draws varied.
Draws ==
    {[BaseDraw EXCEPT !.laneRand = r] : r \in RandValues}
    \cup {[BaseDraw EXCEPT !.heightVariation = 90],
          [BaseDraw EXCEPT !.moveRoll = 5, !.movementTypeRand = 20,
                           !.progressRand = 30]}

-----------------------------------------------------------------------------
(* Platform records.  y, z are the platform's current position; a field    *)
(* the source leaves undefined is "none", FALSE or 0.                      *)

\* createPlatform, platforms.length === 0: the 30 x 50 start platform.
StartPlatform ==
    [ type |-> "center", y |-> 0, z |-> 0, width |-> 30, depth |-> 50,
      radius |-> 0, isRoundPlatform |-> FALSE, isTrampoline |-> FALSE,
      isSlowDownTrampoline |-> FALSE, bounceEffect |-> "none",
      isRedFlagPlatform |-> FALSE, isMovingPlatform |-> FALSE,
      movementType |-> "none", originalY |-> 0, originalZ |-> 0,
      movementProgress |-> 0, pendulumAxis |-> "none" ]

\* A faulty start: a slow-down trampoline at the origin.
StartTrampolineSlow ==
    [ StartPlatform EXCEPT !.width = 10, !.depth = 10,
                           !.isSlowDownTrampoline = TRUE,
                           !.bounceEffect = "backward" ]

\* createStartingPlatforms: the green 10 x 10 trampoline at the origin.
StartTrampoline ==
    [ StartPlatform EXCEPT !.width = 10, !.depth = 10, !.isTrampoline = TRUE,
                           !.bounceEffect = "forward" ]

\* nextY, helpers.js:527-536.
NextY(lastY, d) ==
    IF d.heightVariation < 80
    THEN lastY - (2 + (d.descentRand * 4) \div 100)
    ELSE lastY

\* A faulty gap: the 6 units are left out, so the shortest gap is none.
NextZNoBase(lastZ, d) == lastZ - ((d.gapRand * 525) \div 10000)

\* nextZ, helpers.js:539 (6 + rand * 5.25, whole units).
NextZ(lastZ, d) == lastZ - (6 + (d.gapRand * 525) \div 10000)

\* helpers.js:577-597: the effect of a platform that is not the goal.
BounceEffectOf(isRedFlag, d) ==
    IF isRedFlag THEN "forward"
    ELSE IF d.typeRoll < 167 THEN "forward"
    ELSE IF d.typeRoll < 208 THEN "backward"
    ELSE "none"

\* A faulty test: trampolines and the goal may move as well.
IsMovingAnyEffect(isRedFlag, effect, lvl, d) ==
    \/ lvl % 10 = 5
    \/ lvl % 10 = 4
    \/ (lvl % 10 = 2 /\ d.level2Roll < 50)
    \/ d.moveRoll < 10

\* A faulty test: the levels ending in 4 are left to the draws.
IsMovingLevelFive(isRedFlag, effect, lvl, d) ==
    /\ ~isRedFlag
    /\ effect = "none"
    /\ \/ lvl % 10 = 5
       \/ (lvl % 10 = 2 /\ d.level2Roll < 50)
       \/ d.moveRoll < 10

\* helpers.js:610-617: does the platform move?
IsMoving(isRedFlag, effect, lvl, d) ==
    /\ ~isRedFlag
    /\ effect = "none"
    /\ \/ lvl % 10 = 5
       \/ lvl % 10 = 4
       \/ (lvl % 10 = 2 /\ d.level2Roll < 50)
       \/ d.moveRoll < 10

\* helpers.js:622-631: which way it moves.
MovementTypeOf(lvl, d) ==
    IF lvl % 10 = 4
    THEN (IF d.hvRoll < 50 THEN "horizontal" ELSE "vertical")
    ELSE MOVEMENT_TYPES[((d.movementTypeRand * Len(MOVEMENT_TYPES)) \div 100) + 1]

\* The platform a createPlatform call builds (else branch and what follows,
\* helpers.js:435-826), from the last lane and the last position.
NewPlatform(isRedFlag, lvl, d, lastType, lastPos) ==
    LET platformType == NextLane(lastType, d.laneRand)
        nextY == NextY(lastPos.y, d)
        nextZ == NextZ(lastPos.z, d)
        isLong == d.isLongRoll < 20
        platformWidth == IF isLong THEN 6 + (d.sizeRand * 6) \div 100
                         ELSE 4 + (d.sizeRand * 8) \div 100
        platformDepth == IF isLong THEN 15 + (d.sizeRand * 15) \div 100
                         ELSE 4 + (d.sizeRand * 8) \div 100
        effect == BounceEffectOf(isRedFlag, d)
        moving == IsMoving(isRedFlag, effect, lvl, d)
        mtype == IF moving THEN MovementTypeOf(lvl, d) ELSE "none"
        platformRadius == IF isRedFlag THEN 12 ELSE 0
    IN  [ type |-> platformType, y |-> nextY, z |-> nextZ,
          width |-> IF isRedFlag THEN platformRadius * 2 ELSE platformWidth,
          depth |-> IF isRedFlag THEN platformRadius * 2 ELSE platformDepth,
          radius |-> platformRadius,
          isRoundPlatform |-> isRedFlag,
          isTrampoline |-> (effect = "forward"),
          isSlowDownTrampoline |-> (effect = "backward"),
          bounceEffect |-> effect,
          isRedFlagPlatform |-> isRedFlag,
          isMovingPlatform |-> moving,
          movementType |-> mtype,
          originalY |-> nextY, originalZ |-> nextZ,
          movementProgress |-> IF moving THEN (d.progressRand * 8) \div 100 ELSE 0,
          pendulumAxis |-> IF mtype = "pendulum"
                           THEN (IF d.axisRoll < 50 THEN "x" ELSE "y")
                           ELSE "none" ]

\* The platform set without the platform nearest the ball, once more than
\* MaxTracked platforms are in it.
Tracked(ps) ==
    IF Len(ps) <= MaxTracked THEN ps
    ELSE LET far == CHOOSE i \in 1..Len(ps) :
                       \A j \in 1..Len(ps) :
                          ps[j].z < ps[i].z \/ (ps[j].z = ps[i].z /\ i <= j)
         IN  SubSeq(ps, 1, far - 1) \o SubSeq(ps, far + 1, Len(ps))

\* The platform createPlatform builds when the platform set is ps: the
\* start platform when the set is empty (helpers.js:398-433), whatever
\* isRedFlag says.
CreatedPlatform(ps, isRedFlag, lvl, d, lastType, lastPos) ==
    IF ps = <<>> THEN StartPlatform
    ELSE NewPlatform(isRedFlag, lvl, d, lastType, lastPos)

\* createPlatform(isRedFlag, scene, lvl), helpers.js:394-829.
CreatePlatform(isRedFlag, lvl, d) ==
    LET new == CreatedPlatform(platforms, isRedFlag, lvl, d, lastPlatformType,
                               lastPlatformPosition)
    IN  /\ platforms' = Tracked(Append(platforms, new))
        /\ lastPlatformPosition' = [y |-> new.y, z |-> new.z]
        /\ lastPlatformType' = new.type
        /\ created' = created + 1
        /\ spawnTrace' = [prev |-> spawnTrace.last, last |-> new.y]
        /\ laneTrace' = [prev |-> lastPlatformType, new |-> new.type]

-----------------------------------------------------------------------------
(* The platform factory's callers.                                         *)
(*                                                                         *)
(* A generation loop runs inside one call, so while genMode names a loop   *)
(* only that loop's steps are enabled.  MaxCreated iterations per session  *)
(* are followed one createPlatform call at a time.  SkipIterations and     *)
(* SkipToFrontier run the other iterations along one fixed choice of       *)
(* draws (level height, shortest gap, a lane that comes back to the lane   *)
(* it started from every second platform) and do not add their platforms   *)
(* to the tracked platform set.                                            *)

\* createStartingPlatforms up to the entry of its loop, helpers.js:834-917.
StartingPlatforms ==
    /\ platforms' = <<StartTrampoline>>
    /\ lastPlatformPosition' = [y |-> 0, z |-> 0]
    /\ lastPlatformType' = "center"
    /\ genMode' = "starting"
    /\ genLeft' = platformsPerLevel
    /\ nextLevelGenerated' = FALSE
    /\ created' = 0
    /\ spawnTrace' = [prev |-> 0, last |-> 0]
    /\ laneTrace' = [prev |-> "center", new |-> "center"]

\* The level argument of the loop that is running: createStartingPlatforms
\* leaves it at its default of 1 (helpers.js:919), addPlatformsForNextLevel
\* is called with level + 1 (part_000:609), the tick passes level
\* (part_000:513).
GenLevel ==
    CASE genMode = "starting" -> 1
      [] genMode = "nextLevel" -> level + 1
      [] OTHER -> level

\* One iteration of a counted loop is done.
LoopAdvance(doneMode) ==
    /\ genLeft' = genLeft - 1
    /\ genMode' = IF genLeft = 1 THEN doneMode ELSE genMode
    /\ UNCHANGED nextLevelGenerated

\* The loop of createStartingPlatforms, helpers.js:918-920.
StartingLoop ==
    /\ genMode = "starting"
    /\ genLeft > 0
    /\ created < MaxCreated
    /\ \E d \in Draws : CreatePlatform(FALSE, 1, d)
    /\ LoopAdvance("ready")
    /\ UNCHANGED <<level, ballVars>>

\* The two loops of addPlatformsForNextLevel, part_000:836-851.
NextLevelLoop ==
    /\ genMode = "nextLevel"
    /\ genLeft > 0
    /\ created < MaxCreated
    /\ \E d \in Draws : CreatePlatform(FALSE, GenLevel, d)
    /\ LoopAdvance("idle")
    /\ UNCHANGED <<level, ballVars>>

\* An even number of iterations of a counted loop, not followed one by one:
\* every platform holds the level (heightVariation >= 0.8), keeps the
\* shortest gap, and the lane alternates between the last lane and a
\* neighbour it returns from.
SkipIterations ==
    /\ genMode \in {"starting", "nextLevel"}
    /\ genLeft > 1
    /\ LET n == genLeft - (genLeft % 2)
       IN  /\ lastPlatformType \in LanesAfter({lastPlatformType}, n)
           /\ lastPlatformPosition' =
                 [lastPlatformPosition EXCEPT !.z = @ - 6 * n]
           /\ genLeft' = genLeft - n
           /\ genMode' = IF genLeft = n
                         THEN (IF genMode = "starting" THEN "ready" ELSE "idle")
                         ELSE genMode
    /\ spawnTrace' = [prev |-> lastPlatformPosition.y,
                      last |-> lastPlatformPosition.y]
    /\ UNCHANGED <<platforms, lastPlatformType, nextLevelGenerated, created, laneTrace,
                   level, ballVars>>

\* addPlatformsAsNeeded(scene, level): entry of the while loop,
\* helpers.js:1113-1117; called by every tick (part_000:513).
AddPlatformsAsNeeded ==
    /\ genMode \in {"ready", "idle"}
    /\ genMode' = IF lastPlatformPosition.z > platformSpawnZ
                  THEN "asNeeded" ELSE "idle"
    /\ UNCHANGED <<nextLevelGenerated, platforms, lastPlatformPosition, lastPlatformType, genLeft,
                   created, spawnTrace, laneTrace, level, ballVars>>

\* One iteration of the while loop, helpers.js:1114-1116.
AsNeededLoop ==
    /\ genMode = "asNeeded"
    /\ lastPlatformPosition.z > platformSpawnZ
    /\ created < MaxCreated
    /\ \E d \in Draws : CreatePlatform(FALSE, GenLevel, d)
    /\ genMode' = IF lastPlatformPosition'.z > platformSpawnZ
                  THEN "asNeeded" ELSE "idle"
    /\ UNCHANGED <<genLeft, nextLevelGenerated, level, ballVars>>

\* Distance from platformSpawnZ at which the while loop is followed again.
FrontierOffset == 1

\* The iterations of the while loop that bring the frontier from the start
\* area to just before platformSpawnZ, not followed one by one (an even
\* number of platforms with gaps of 6 to 11.25).
SkipToFrontier ==
    /\ genMode = "asNeeded"
    /\ lastPlatformPosition.z > platformSpawnZ + 100
    /\ lastPlatformPosition' =
          [lastPlatformPosition EXCEPT !.z = platformSpawnZ + FrontierOffset]
    /\ spawnTrace' = [prev |-> lastPlatformPosition.y,
                      last |-> lastPlatformPosition.y]
    /\ UNCHANGED <<platforms, lastPlatformType, genMode, genLeft, nextLevelGenerated,
                   created, laneTrace, level, ballVars>>

-----------------------------------------------------------------------------
(* Moving platforms: updateMovingPlatforms, helpers.js:1329-1411.          *)
(* movementProgress is counted in eighths of a turn.                       *)

\* 10 * sin(k * pi / 4), k = 0..7.
SinTenths == << 0, 7, 10, 7, 0, -7, -10, -7 >>

\* sin(progress) * range, cut to whole units.
Swing(progress, range) ==
    LET s == SinTenths[(progress % 8) + 1]
    IN  IF s >= 0 THEN (s * range) \div 10 ELSE -((-s * range) \div 10)

\* The position one platform takes for its movementProgress.
MovedPlatform(p) ==
    LET q == (p.movementProgress + 1) % 8
        moved == [p EXCEPT !.movementProgress = q]
    IN  CASE p.movementType = "vertical" ->
               [moved EXCEPT !.y = p.originalY + Swing(q, verticalRange)]
          [] p.movementType = "diagonal" ->
               [moved EXCEPT !.y = p.originalY + Swing(q, diagonalRange)]
          [] p.movementType = "orbital" ->
               [moved EXCEPT !.z = p.originalZ + Swing(q, orbitalRadius)]
          [] p.movementType = "figure8" ->
               [moved EXCEPT !.y = p.originalY + Swing(2 * q, figure8ScaleY) \div 2]
          [] p.movementType = "pendulum" /\ p.pendulumAxis = "y" ->
               [moved EXCEPT !.y = p.originalY + Swing(q, pendulumLength)]
          [] OTHER -> moved

MovePlatforms(ps) ==
    [i \in 1..Len(ps) |->
        IF ps[i].isMovingPlatform THEN MovedPlatform(ps[i]) ELSE ps[i]]

\* updateMovingPlatforms over the ticks of one eighth of a turn
\* (part_000:498-499).
UpdateMovingPlatforms ==
    /\ genMode \in {"ready", "idle"}
    /\ \E i \in 1..Len(platforms) : platforms[i].isMovingPlatform
    /\ platforms' = MovePlatforms(platforms)
    /\ UNCHANGED <<lastPlatformPosition, lastPlatformType, genMode, genLeft,
                   nextLevelGenerated, created, spawnTrace, laneTrace, level, ballVars>>

-----------------------------------------------------------------------------
(* cleanupPlatforms(ballPosition, 30, scene), helpers.js:1088-1106, called *)
(* by every tick (part_000:507-510).  cut is ballPosition.z + 30; the ball *)
(* is behind the frontier, so the cut lies at one of the platforms.        *)

CleanupPlatforms ==
    /\ genMode = "idle"
    /\ \E k \in 1..Len(platforms) :
          LET cut == platforms[k].z
          IN  /\ \E i \in 1..Len(platforms) : platforms[i].z > cut
              /\ platforms' = SelectSeq(platforms, LAMBDA p : ~(p.z > cut))
    /\ UNCHANGED <<lastPlatformPosition, lastPlatformType, genMode, genLeft,
                   nextLevelGenerated, created, spawnTrace, laneTrace, level, ballVars>>

-----------------------------------------------------------------------------
(* addPlatformsForNextLevel(scene, level + 1), part_000:797-858, called    *)
(* by the tick at 75% of the level's distance (part_000:609).              *)

\* Array.prototype.sort((a, b) => a.position.z - b.position.z): stable,
\* ascending z.
RECURSIVE InsertByZ(_, _)
InsertByZ(sorted, p) ==
    IF sorted = <<>> THEN <<p>>
    ELSE IF sorted[Len(sorted)].z <= p.z THEN Append(sorted, p)
    ELSE Append(InsertByZ(SubSeq(sorted, 1, Len(sorted) - 1), p),
                sorted[Len(sorted)])

RECURSIVE SortByZ(_)
SortByZ(ps) ==
    IF ps = <<>> THEN <<>>
    ELSE InsertByZ(SortByZ(SubSeq(ps, 1, Len(ps) - 1)), ps[Len(ps)])

\* The platform created last is in the tracked platform set.
FrontierTracked ==
    \E i \in 1..Len(platforms) :
        platforms[i].originalZ = lastPlatformPosition.z

\* platformCount plus the 10 extra platforms.
NextLevelCount(lvl) == platformsPerLevel + (lvl \div 2) * 5 + 10

AddPlatformsForNextLevel ==
    /\ genMode = "idle"
    /\ FrontierTracked
    /\ IF platforms = <<>>
       THEN /\ StartingPlatforms
       ELSE LET sorted == SortByZ(platforms)
                furthestPlatform == sorted[1]
            IN  /\ platforms' = sorted
                /\ lastPlatformPosition' =
                      [y |-> furthestPlatform.y, z |-> furthestPlatform.z - 20]
                /\ lastPlatformType' = furthestPlatform.type
                /\ genMode' = "nextLevel"
                /\ nextLevelGenerated' = TRUE
                /\ genLeft' = NextLevelCount(level + 1)
                /\ UNCHANGED <<created, spawnTrace, laneTrace>>
    /\ UNCHANGED <<level, ballVars>>

\* The level counter's timer, part_000:649-657.
LevelUp ==
    /\ genMode = "idle"
    /\ nextLevelGenerated
    /\ level < MaxLevel
    /\ level' = level + 1
    /\ nextLevelGenerated' = FALSE
    /\ UNCHANGED <<platforms, lastPlatformPosition, lastPlatformType, genMode,
                   genLeft, created, spawnTrace, laneTrace, ballVars>>

-----------------------------------------------------------------------------
(* The ball: src/js/entities/platform.js:1038-1447.                        *)

\* GAME_SETTINGS, config.js:7-24 (velocities in 1/600, speed in 0.025).
initialSpeed == 6
gravity == 12
jumpForce == 180
maxJumpForce == 240
jetpackBoostForce == 9
\* updateBallPosition: terminalVelocity = -0.5, jumpChargeTime <= 0.5 s.
terminalVelocity == -300
maxChargeTime == 30
\* applyPlatformEffects: speed += 0.025, speed -= 0.05.
speedBoost == 1
speedSlowDown == 2
\* checkPowerUpCollisions: updateJetpackFuel(100).
jetpackPickupFuel == 100

\* deltaTime * 60 of the frames explored: clock.getDelta() is not clamped
\* (part_000:389), and the frames followed are a quarter of a second long.
DeltaFrames == {15}

\* Base speeds explored: trampolines are met while the speed is inside.
MaxSpeed == 7
SlowestExplored == 0
\* Extra-jump credits collected at most, double jumps counted at most.
MaxExtraJumps == 1
MaxDoubleJumps == 2
\* Times the double-jump flag is cleared in the air that are counted.
MaxRearms == 1
\* Fuel level from which the jetpack's ticks are followed one by one.
FuelTail == 2

Max(a, b) == IF a > b THEN a ELSE b

\* The ball's own state as one value.
BallNow ==
    [ vy |-> ballVelocityY, isJumping |-> isJumping,
      hasDoubleJumped |-> hasDoubleJumped, jumpChargeTime |-> jumpChargeTime,
      airEntryMethod |-> airEntryMethod, wasOnPlatform |-> wasOnPlatform,
      extraJumps |-> extraJumps ]

SetBall(b) ==
    /\ ballVelocityY' = b.vy
    /\ isJumping' = b.isJumping
    /\ hasDoubleJumped' = b.hasDoubleJumped
    /\ jumpChargeTime' = b.jumpChargeTime
    /\ airEntryMethod' = b.airEntryMethod
    /\ wasOnPlatform' = b.wasOnPlatform
    /\ extraJumps' = b.extraJumps

\* resetBallState() without its line for the extra-jump credit.
BallResetKeepingCredit ==
    [vy |-> 0, isJumping |-> FALSE, hasDoubleJumped |-> FALSE,
     jumpChargeTime |-> 0, airEntryMethod |-> "", wasOnPlatform |-> FALSE,
     extraJumps |-> 1]

\* resetBallState, platform.js:1433-1446, and the initial values 1050-1060.
BallReset ==
    [ vy |-> 0, isJumping |-> FALSE, hasDoubleJumped |-> FALSE,
      jumpChargeTime |-> 0, airEntryMethod |-> "", wasOnPlatform |-> FALSE,
      extraJumps |-> 0 ]

\* A faulty resolver: a rising ball lands as well.
CheckPlatformCollisionRising(ps, on, vy) ==
    IF on # 0
    THEN [ onPlatform |-> TRUE, bounceEffect |-> ps[on].bounceEffect,
           isRedFlagPlatform |-> ps[on].isRedFlagPlatform ]
    ELSE [ onPlatform |-> FALSE, bounceEffect |-> "none",
           isRedFlagPlatform |-> FALSE ]

\* checkPlatformCollision, helpers.js:1012-1080, for a ball whose position
\* lies in the collision box of platform number on (0: of no platform).
CheckPlatformCollision(ps, on, vy) ==
    IF on # 0 /\ vy <= 0
    THEN [ onPlatform |-> TRUE, bounceEffect |-> ps[on].bounceEffect,
           isRedFlagPlatform |-> ps[on].isRedFlagPlatform ]
    ELSE [ onPlatform |-> FALSE, bounceEffect |-> "none",
           isRedFlagPlatform |-> FALSE ]

\* isOnPlatform, collision.js:22-25.
IsOnPlatform == CheckPlatformCollision(platforms, ballOn, ballVelocityY).onPlatform

\* speed < GAME_SETTINGS.minSpeed, platform.js:1271: GAME_SETTINGS has no
\* minSpeed, and a number compared with undefined is never smaller.
BelowMinSpeed(spd) == FALSE

\* Faulty landings: a speed-boost trampoline that leaves the base speed
\* alone, a landing that keeps the double-jump flag, and a resolver that
\* acts whenever the ball is on a platform and lets plain platforms drag.
ApplyPlatformEffectsNoBoost(info, b, spd) ==
    IF info.onPlatform /\ b.vy < 0
    THEN LET landed == [b EXCEPT !.vy = 0, !.isJumping = FALSE,
                                 !.hasDoubleJumped = FALSE,
                                 !.airEntryMethod = ""]
             bounced == [landed EXCEPT !.vy = (maxJumpForce * 3) \div 2,
                                       !.airEntryMethod = "bounced"]
         IN  CASE info.bounceEffect = "forward" ->
                    [ball |-> bounced, speed |-> spd]
               [] info.bounceEffect = "backward" ->
                    [ball |-> bounced, speed |-> spd - speedSlowDown]
               [] OTHER -> [ball |-> landed, speed |-> spd]
    ELSE [ball |-> b, speed |-> spd]

ApplyPlatformEffectsKeepFlag(info, b, spd) ==
    IF info.onPlatform /\ b.vy < 0
    THEN LET landed == [b EXCEPT !.vy = 0, !.isJumping = FALSE,
                                 !.airEntryMethod = ""]
             bounced == [landed EXCEPT !.vy = (maxJumpForce * 3) \div 2,
                                       !.airEntryMethod = "bounced"]
         IN  CASE info.bounceEffect = "forward" ->
                    [ball |-> bounced, speed |-> spd + speedBoost]
               [] info.bounceEffect = "backward" ->
                    [ball |-> bounced, speed |-> spd - speedSlowDown]
               [] OTHER -> [ball |-> landed, speed |-> spd]
    ELSE [ball |-> b, speed |-> spd]

ApplyPlatformEffectsDrag(info, b, spd) ==
    IF info.onPlatform
    THEN LET landed == [b EXCEPT !.vy = 0, !.isJumping = FALSE,
                                 !.hasDoubleJumped = FALSE,
                                 !.airEntryMethod = ""]
             bounced == [landed EXCEPT !.vy = (maxJumpForce * 3) \div 2,
                                       !.airEntryMethod = "bounced"]
         IN  CASE info.bounceEffect = "forward" ->
                    [ball |-> bounced, speed |-> spd + speedBoost]
               [] info.bounceEffect = "backward" ->
                    [ball |-> bounced, speed |-> spd - speedSlowDown]
               [] OTHER -> [ball |-> landed, speed |-> spd - speedSlowDown]
    ELSE [ball |-> b, speed |-> spd]

\* A faulty landing: the extra-jump credit is lost with the double jump.
ApplyPlatformEffectsLoseCredit(info, b, spd) ==
    IF info.onPlatform /\ b.vy < 0
    THEN LET landed == [b EXCEPT !.vy = 0, !.isJumping = FALSE,
                                 !.hasDoubleJumped = FALSE,
                                 !.airEntryMethod = "", !.extraJumps = 0]
             bounced == [landed EXCEPT !.vy = (maxJumpForce * 3) \div 2,
                                       !.airEntryMethod = "bounced"]
         IN  CASE info.bounceEffect = "forward" ->
                    [ball |-> bounced, speed |-> spd + speedBoost]
               [] info.bounceEffect = "backward" ->
                    [ball |-> bounced, speed |-> spd - speedSlowDown]
               [] OTHER -> [ball |-> landed, speed |-> spd]
    ELSE [ball |-> b, speed |-> spd]

\* applyPlatformEffects(platformInfo, speed), platform.js:1241-1294.
ApplyPlatformEffects(info, b, spd) ==
    IF info.onPlatform /\ b.vy < 0
    THEN LET landed == [b EXCEPT !.vy = 0, !.isJumping = FALSE,
                                 !.hasDoubleJumped = FALSE,
                                 !.airEntryMethod = ""]
             bounced == [landed EXCEPT !.vy = (maxJumpForce * 3) \div 2,
                                       !.airEntryMethod = "bounced"]
         IN  CASE info.bounceEffect = "forward" ->
                    [ball |-> bounced, speed |-> spd + speedBoost]
               [] info.bounceEffect = "backward" ->
                    [ball |-> bounced,
                     speed |-> IF BelowMinSpeed(spd - speedSlowDown)
                               THEN "undefined" ELSE spd - speedSlowDown]
               [] OTHER -> [ball |-> landed, speed |-> spd]
    ELSE [ball |-> b, speed |-> spd]

\* A property read of a JavaScript object in a condition: a field the
\* object does not have is undefined, which is not true.
Truthy(object, field) == field \in DOMAIN object /\ object[field]

\* collision.js:44-52: is onRedFlagPlatformReached() called?
ReachedRedFlag(platformInfo) ==
    /\ platformInfo.onPlatform
    /\ Truthy(platformInfo, "isRedFlagPlatform")
    /\ Truthy(platformInfo, "isTrampoline")

\* handlePlatformCollisions(speed, ...), collision.js:33-62.  The goal
\* callback needs platformInfo.isTrampoline, which checkPlatformCollision
\* does not return.
HandlePlatformCollisions(ps, on, b, spd) ==
    LET platformInfo == CheckPlatformCollision(ps, on, b.vy)
        applied == ApplyPlatformEffects(platformInfo, b, spd)
    IN  [ ball |-> applied.ball, speed |-> applied.speed,
          onPlatform |-> platformInfo.onPlatform,
          bounceEffect |-> platformInfo.bounceEffect,
          isRedFlagPlatform |-> platformInfo.isRedFlagPlatform,
          reached |-> ReachedRedFlag(platformInfo) ]

\* A faulty jump: the double jump does not set the double-jump flag.
JumpKeepsDoubleJump(b, isDoubleJump, isExtraJump) ==
    IF isExtraJump
    THEN [b EXCEPT !.vy = jumpForce, !.extraJumps = @ - 1]
    ELSE IF isDoubleJump
    THEN [b EXCEPT !.vy = jumpForce]
    ELSE [b EXCEPT !.isJumping = TRUE, !.hasDoubleJumped = FALSE,
                   !.vy = jumpForce, !.jumpChargeTime = 0,
                   !.airEntryMethod = IF b.wasOnPlatform THEN "jumped" ELSE @]

\* jump(isDoubleJump, isExtraJump), platform.js:1302-1324.
Jump(b, isDoubleJump, isExtraJump) ==
    IF isExtraJump
    THEN [b EXCEPT !.vy = jumpForce, !.extraJumps = @ - 1]
    ELSE IF isDoubleJump
    THEN [b EXCEPT !.vy = jumpForce, !.hasDoubleJumped = TRUE]
    ELSE [b EXCEPT !.isJumping = TRUE, !.hasDoubleJumped = FALSE,
                   !.vy = jumpForce, !.jumpChargeTime = 0,
                   !.airEntryMethod = IF b.wasOnPlatform THEN "jumped" ELSE @]

\* A faulty choice of jump: the extra jump does not ask for a credit.
JumpKindNoCredit(b, held, onPlatform) ==
    IF ~held /\ ~b.isJumping /\ onPlatform THEN "first"
    ELSE IF ~held /\ ~onPlatform
    THEN IF ~b.isJumping /\ b.airEntryMethod = "fell" THEN "first"
         ELSE IF ~b.hasDoubleJumped
         THEN IF b.airEntryMethod \in {"jumped", "bounced", "rolled"}
              THEN "double"
              ELSE IF b.airEntryMethod = "fell" /\ b.isJumping THEN "double"
              ELSE "none"
         ELSE IF b.hasDoubleJumped THEN "extra"
         ELSE "none"
    ELSE "none"

\* A faulty handler: no first jump in the air after a fall.
JumpKindNoAirJump(b, held, onPlatform) ==
    IF ~held /\ ~b.isJumping /\ onPlatform THEN "first"
    ELSE IF ~held /\ ~onPlatform
    THEN IF ~b.hasDoubleJumped
         THEN IF b.airEntryMethod \in {"jumped", "bounced", "rolled"}
              THEN "double"
              ELSE IF b.airEntryMethod = "fell" /\ b.isJumping THEN "double"
              ELSE "none"
         ELSE IF b.hasDoubleJumped /\ b.extraJumps > 0 THEN "extra"
         ELSE "none"
    ELSE "none"

\* The jump the space key or the jump button asks for, config.js:347-389
\* and 806-851: "first", "double", "extra" or "none".  held is keys.space
\* (touchState.jumpActive for the button).
JumpKind(b, held, onPlatform) ==
    IF ~held /\ ~b.isJumping /\ onPlatform THEN "first"
    ELSE IF ~held /\ ~onPlatform
    THEN IF ~b.isJumping /\ b.airEntryMethod = "fell" THEN "first"
         ELSE IF ~b.hasDoubleJumped
         THEN IF b.airEntryMethod \in {"jumped", "bounced", "rolled"}
              THEN "double"
              ELSE IF b.airEntryMethod = "fell" /\ b.isJumping THEN "double"
              ELSE "none"
         ELSE IF b.hasDoubleJumped /\ b.extraJumps > 0 THEN "extra"
         ELSE "none"
    ELSE "none"

\* The jump() call of that kind.
JumpOf(b, kind) ==
    CASE kind = "first" -> Jump(b, FALSE, FALSE)
      [] kind = "double" -> Jump(b, TRUE, FALSE)
      [] kind = "extra" -> Jump(b, FALSE, TRUE)
      [] OTHER -> b

\* Math.min(maxJumpForce - jumpForce, getJumpChargeTime() * 0.8),
\* config.js:430-433 and 873-876; the charge time is in frames.
AdditionalForce(charge) == Min(maxJumpForce - jumpForce, charge * 8)

\* History kept for the claims: the jump made, and the credit around it.
NoJump == [kind |-> "none", before |-> 0, after |-> 0]

JumpRecord(b, kind) ==
    IF kind = "none"
    THEN [kind |-> "refused", before |-> b.extraJumps,
          after |-> b.extraJumps]
    ELSE [kind |-> kind, before |-> b.extraJumps,
          after |-> JumpOf(b, kind).extraJumps]

\* What the resolver found and did in the frame: history for the claims.
NoCollision ==
    [ onPlatform |-> FALSE, bounceEffect |-> "none", vyBefore |-> 0,
      speedBefore |-> 0, chargeBefore |-> 0 ]

CollisionRecord(res, before, spd) ==
    IF ~res.onPlatform THEN NoCollision
    ELSE [ onPlatform |-> TRUE, bounceEffect |-> res.bounceEffect,
           vyBefore |-> before.vy, speedBefore |-> spd,
           chargeBefore |-> before.jumpChargeTime ]

\* The jump part of both handlers: the ball, and the history of the jump.
DoJump(kind) ==
    /\ kind = "double" => doubleJumps < MaxDoubleJumps
    /\ SetBall(JumpOf(BallNow, kind))
    /\ lastJump' = JumpRecord(BallNow, kind)
    /\ doubleJumps' = IF kind = "double" THEN doubleJumps + 1 ELSE doubleJumps
    /\ kind = "first" /\ hasDoubleJumped => rearms < MaxRearms
    /\ rearms' = IF kind = "first" /\ hasDoubleJumped
                 THEN rearms + 1 ELSE rearms

\* onKeyDown, the space key, config.js:244-266 and 317-390.
KeyDownSpace ==
    /\ ~gameOver
    /\ ~isGrabbing
    /\ gameStarted' = TRUE
    /\ IF ~ballReleased
       THEN /\ ballReleased' = TRUE
            /\ keysSpace' = TRUE
            /\ UNCHANGED <<isJetpackActive, ballVelocityY, isJumping,
                           hasDoubleJumped, jumpChargeTime, airEntryMethod,
                           wasOnPlatform, extraJumps, lastJump, doubleJumps,
                           rearms>>
       ELSE IF jetpackFuel > 0
       THEN /\ isJetpackActive' = TRUE
            /\ UNCHANGED <<ballReleased, keysSpace, ballVelocityY, isJumping,
                           hasDoubleJumped, jumpChargeTime, airEntryMethod,
                           wasOnPlatform, extraJumps, lastJump, doubleJumps,
                           rearms>>
       ELSE LET kind == JumpKind(BallNow, keysSpace, IsOnPlatform)
            IN  /\ DoJump(kind)
                /\ keysSpace' = (keysSpace \/ kind # "none")
                /\ UNCHANGED <<ballReleased, isJetpackActive>>
    /\ collisionResult' = NoCollision
    /\ UNCHANGED <<genVars, powerUpsAhead, speed, jetpackFuel, gameOver, gameState, ballOn,
                   touchJumpActive, virtualSpace>>

\* onKeyUp, the space key, config.js:404-441.
KeyUpSpace ==
    /\ isJetpackActive' = FALSE
    /\ ballVelocityY' = IF keysSpace /\ isJumping
                        THEN ballVelocityY + AdditionalForce(jumpChargeTime)
                        ELSE ballVelocityY
    /\ keysSpace' = FALSE
    /\ collisionResult' = NoCollision
    /\ UNCHANGED <<genVars, powerUpsAhead, speed, jetpackFuel, gameStarted, ballReleased,
                   gameOver, gameState, isJumping, hasDoubleJumped,
                   jumpChargeTime, airEntryMethod, wasOnPlatform, extraJumps,
                   ballOn, touchJumpActive, virtualSpace,
                   lastJump, doubleJumps, rearms>>

\* handleJumpTouchStart, config.js:738-852: the session values it is given
\* are those window.gameState got in the last frame.
JumpTouchStart ==
    /\ ~gameState.gameOver
    /\ gameStarted' = (gameStarted \/ ~gameState.gameStarted)
    /\ IF ~gameState.ballReleased
       THEN /\ ballReleased' = TRUE
            /\ virtualSpace' = TRUE
            /\ UNCHANGED <<isJetpackActive, touchJumpActive, ballVelocityY,
                           isJumping, hasDoubleJumped, jumpChargeTime,
                           airEntryMethod, wasOnPlatform, extraJumps, lastJump,
                           doubleJumps, rearms>>
       ELSE IF gameState.jetpackFuel > 0
       THEN /\ isJetpackActive' = (jetpackFuel > 0)
            /\ UNCHANGED <<ballReleased, virtualSpace, touchJumpActive,
                           ballVelocityY, isJumping, hasDoubleJumped,
                           jumpChargeTime, airEntryMethod, wasOnPlatform,
                           extraJumps, lastJump, doubleJumps, rearms>>
       ELSE LET kind == JumpKind(BallNow, touchJumpActive, IsOnPlatform)
            IN  /\ DoJump(kind)
                /\ touchJumpActive' = (touchJumpActive \/ kind # "none")
                /\ virtualSpace' = (virtualSpace \/ kind # "none")
                /\ UNCHANGED <<ballReleased, isJetpackActive>>
    /\ collisionResult' = NoCollision
    /\ UNCHANGED <<genVars, powerUpsAhead, speed, jetpackFuel, gameOver, gameState, ballOn,
                   keysSpace>>

\* handleJumpTouchEnd, config.js:859-884.
JumpTouchEnd ==
    /\ isJetpackActive' = FALSE
    /\ ballVelocityY' = IF touchJumpActive /\ isJumping
                        THEN ballVelocityY + AdditionalForce(jumpChargeTime)
                        ELSE ballVelocityY
    /\ touchJumpActive' = FALSE
    /\ virtualSpace' = FALSE
    /\ collisionResult' = NoCollision
    /\ UNCHANGED <<genVars, powerUpsAhead, speed, jetpackFuel, gameStarted, ballReleased,
                   gameOver, gameState, isJumping, hasDoubleJumped,
                   jumpChargeTime, airEntryMethod, wasOnPlatform, extraJumps,
                   ballOn, keysSpace, lastJump, doubleJumps,
                   rearms>>

-----------------------------------------------------------------------------
(* One frame: update(), part_000:388-676, the ball's part.                 *)

\* A faulty frame: a jumping ball that leaves the platform is classified too.
UpdateBallPositionJumping(b, space, dt, jetActive, fuel, onPlatformNow, fast) ==
    LET left == b.wasOnPlatform /\ ~onPlatformNow
        b1 == IF left
              THEN [b EXCEPT !.airEntryMethod = IF fast THEN "rolled" ELSE "fell",
                             !.hasDoubleJumped = FALSE]
              ELSE b
        b2 == [b1 EXCEPT !.wasOnPlatform = onPlatformNow]
        b4 == IF ~jetActive \/ fuel <= 0
              THEN [b2 EXCEPT !.vy = @ - gravity * dt]
              ELSE b2
    IN  [b4 EXCEPT !.vy = Max(@, terminalVelocity)]

\* updateBallPosition, platform.js:1121-1232.  space is the combined space
\* key, onPlatformNow the value of isOnPlatform() at entry, fast tells
\* whether |ballVelocity.x| > 0.01.
UpdateBallPosition(b, space, dt, jetActive, fuel, onPlatformNow, fast) ==
    LET left == b.wasOnPlatform /\ ~onPlatformNow /\ ~b.isJumping
        b1 == IF left
              THEN [b EXCEPT !.airEntryMethod = IF fast THEN "rolled" ELSE "fell",
                             !.hasDoubleJumped = FALSE]
              ELSE b
        b2 == [b1 EXCEPT !.wasOnPlatform = onPlatformNow]
        b3 == IF space /\ ~b2.isJumping /\ onPlatformNow
              THEN [b2 EXCEPT !.jumpChargeTime = Min(@ + dt, maxChargeTime)]
              ELSE b2
        b4 == IF ~jetActive \/ fuel <= 0
              THEN [b3 EXCEPT !.vy = @ - gravity * dt]
              ELSE b3
    IN  [b4 EXCEPT !.vy = Max(@, terminalVelocity)]

\* A faulty jetpack: it burns with an empty tank as well.
UpdateJetpackUnguarded(b, jetActive, fuel) ==
    IF jetActive
    THEN [ball |-> [b EXCEPT !.vy = @ + jetpackBoostForce], fuel |-> fuel - 1]
    ELSE [ball |-> b, fuel |-> fuel]

\* updateJetpack, part_004:101-152, with the fuel callback of part_000.
UpdateJetpack(b, jetActive, fuel) ==
    IF jetActive /\ fuel > 0
    THEN LET boosted == [b EXCEPT !.vy = @ + jetpackBoostForce]
         IN  [ ball |-> IF fuel = 1
                        THEN [boosted EXCEPT !.isJumping = TRUE,
                                             !.hasDoubleJumped = FALSE]
                        ELSE boosted,
               fuel |-> fuel - 1 ]
    ELSE [ball |-> b, fuel |-> fuel]

\* checkPowerUpCollisions, powerup.js:140-196, for the power-up touched.
PowerUpKinds == {"none", "jetpack", "extraJump"}

\* The jetpack is picked up while the tank is empty and the ball rises no
\* faster than a trampoline throws it.
PickupCeiling == (maxJumpForce * 3) \div 2

\* Platforms the ball can come down on while the speed is explored.
Landable(on) ==
    \/ on = 0
    \/ /\ on \in 1..Len(platforms)
       /\ platforms[on].bounceEffect = "forward" => speed < MaxSpeed
       /\ platforms[on].bounceEffect = "backward" => speed > SlowestExplored

\* The times the double-jump flag goes from set to clear without a landing.
Rearmed(b, onPlatformNow, jetActive, fuel) ==
    (IF b.wasOnPlatform /\ ~onPlatformNow /\ ~b.isJumping /\ b.hasDoubleJumped
     THEN 1 ELSE 0)
    + (IF jetActive /\ fuel = 1 /\ b.hasDoubleJumped
          /\ ~(b.wasOnPlatform /\ ~onPlatformNow /\ ~b.isJumping)
       THEN 1 ELSE 0)

\* The jetpack is burning far from empty.
Burning ==
    /\ isJetpackActive
    /\ jetpackFuel > FuelTail + 1

Frame ==
    [ gameOver |-> gameOver, ballReleased |-> ballReleased,
      jetpackFuel |-> jetpackFuel, gameStarted |-> gameStarted ]

Update ==
    /\ gameState' = Frame
    /\ IF gameOver \/ ~gameStarted \/ isPaused
       THEN /\ collisionResult' = NoCollision
            /\ lastJump' = NoJump
            /\ UNCHANGED <<speed, jetpackFuel, gameOver, ballVelocityY,
                           isJumping, hasDoubleJumped, jumpChargeTime,
                           airEntryMethod, wasOnPlatform, extraJumps, ballOn,
                           doubleJumps, rearms>>
       ELSE IF ~ballReleased
       THEN \* the ball hangs under the ship, above every platform
            /\ collisionResult' = NoCollision
            /\ lastJump' = NoJump
            /\ UNCHANGED <<speed, jetpackFuel, gameOver, ballVelocityY,
                           isJumping, hasDoubleJumped, jumpChargeTime,
                           airEntryMethod, wasOnPlatform, extraJumps, ballOn,
                           doubleJumps, rearms>>
       ELSE /\ ~Burning
            /\ \E dt \in DeltaFrames, fast \in BOOLEAN,
                  on \in 0..Len(platforms), out \in BOOLEAN,
                  powerUp \in powerUpsAhead \cup {"none"} :
                 LET onPlatformNow == IsOnPlatform
                     moved == UpdateBallPosition(BallNow,
                                  keysSpace \/ virtualSpace, dt,
                                  isJetpackActive, jetpackFuel,
                                  onPlatformNow, fast)
                     jet == UpdateJetpack(moved, isJetpackActive, jetpackFuel)
                     res == HandlePlatformCollisions(platforms, on, jet.ball,
                                                     speed)
                     fallen == out /\ ~res.onPlatform
                     taken == IF fallen THEN "none" ELSE powerUp
                     rearmed == Rearmed(BallNow, onPlatformNow,
                                        isJetpackActive, jetpackFuel)
                 IN  /\ Landable(on)
                     /\ powerUp = "extraJump" => extraJumps < MaxExtraJumps
                     /\ powerUp = "jetpack" =>
                           jetpackFuel = 0 /\ res.ball.vy <= PickupCeiling
                     /\ ~res.onPlatform => rearms + rearmed <= MaxRearms
                     /\ ballOn' = on
                     /\ speed' = res.speed
                     /\ gameOver' = fallen
                     /\ jetpackFuel' = IF taken = "jetpack"
                                       THEN jetpackPickupFuel ELSE jet.fuel
                     /\ SetBall([res.ball EXCEPT !.extraJumps =
                                    IF taken = "extraJump" THEN @ + 1 ELSE @])
                     /\ collisionResult' = CollisionRecord(res, jet.ball, speed)
                     /\ lastJump' = NoJump
                     /\ doubleJumps' = IF res.onPlatform THEN 0 ELSE doubleJumps
                     /\ rearms' = IF res.onPlatform THEN 0
                                  ELSE rearms + rearmed
    /\ UNCHANGED <<genVars, powerUpsAhead, isJetpackActive, gameStarted, ballReleased,
                   keysSpace, touchJumpActive, virtualSpace>>

\* One frame of the ball under a burning jetpack that is not about to run
\* dry, clear of the platforms: updateBallPosition, then updateJetpack.
BurnFrame(b, space, dt, fuel, onPlatformNow, fast) ==
    UpdateJetpack(UpdateBallPosition(b, space, dt, TRUE, fuel, onPlatformNow,
                                     fast), TRUE, fuel).ball

\* The frames of a burning jetpack down to FuelTail, over a stretch with no
\* platform, power-up or floor in the ball's way: the first two frames as
\* update() runs them, the others add the boost and take a unit of fuel.
JetpackBurn ==
    /\ ~gameOver /\ gameStarted /\ ballReleased
    /\ Burning
    /\ \E dt \in DeltaFrames, fast \in BOOLEAN :
          LET n == jetpackFuel - FuelTail
              space == keysSpace \/ virtualSpace
              first == BurnFrame(BallNow, space, dt, jetpackFuel,
                                 IsOnPlatform, fast)
              second == BurnFrame(first, space, dt, jetpackFuel - 1, FALSE,
                                  fast)
              rearmed == Rearmed(BallNow, IsOnPlatform, TRUE, jetpackFuel)
                         + Rearmed(first, FALSE, TRUE, jetpackFuel - 1)
          IN  /\ rearms + rearmed <= MaxRearms
              /\ SetBall([second EXCEPT
                             !.vy = @ + (n - 2) * jetpackBoostForce])
              /\ rearms' = rearms + rearmed
    /\ jetpackFuel' = FuelTail
    /\ ballOn' = 0
    /\ gameState' = [Frame EXCEPT !.jetpackFuel = FuelTail + 1]
    /\ collisionResult' = NoCollision
    /\ lastJump' = NoJump
    /\ UNCHANGED <<genVars, powerUpsAhead, speed, isJetpackActive, gameStarted, ballReleased,
                   gameOver, keysSpace, touchJumpActive, virtualSpace,
                   doubleJumps>>

-----------------------------------------------------------------------------
(* The session controller: update(), part_000:388-676, as a whole, with    *)
(* the level logic of part_001 and the grab of abilities.js.               *)
(*                                                                         *)
(* The ball's distance is followed in eighths of a world unit.  The        *)
(* platforms of the platform set stand for the platforms around the ball:  *)
(* cleanupPlatforms finds none of them 30 units behind it.  The generation *)
(* loops run inside the tick along the shortest gap (6 units), and the     *)
(* platforms they create are not added to the tracked platform set.  The   *)
(* up and down keys that move the ship are not pressed.                    *)

\* No setTimeout callback of the session is pending.
NoTimers == [generation |-> -1, level |-> -1, transition |-> -1]

\* No update() call has been made yet.
NoTick ==
    [ kind |-> "none", resolvedAgainst |-> <<>>, ballRise |-> 0,
      reached |-> FALSE, completed |-> FALSE, positionSet |-> FALSE ]

\* Where the ship and the ball are created: helpers.js:177 and
\* platform.js:1104.
ShipHeight == 15
BallHeight == 10

\* GAME_SETTINGS.distanceForNextLevel, config.js:18.
distanceForNextLevel == 500

\* The delays of the setTimeout calls of part_000:612-614, 649-674 and
\* 671-673, in frames.
generationDelay == 60
levelDelay == 90
transitionDelay == 60
removeDistance == 30

\* Distance the ball is followed over, in world units, and the same for a
\* short course; grabs held at most.
MaxDistance == 510
ShortDistance == 10
MaxGrabs == 1

\* Math.floor(Math.abs(ball.position.z)), part_000:581.
ScoreOf(z) == z \div 8

\* ball.position.z -= speed * deltaTime * 60, platform.js:1217, in eighths.
Advance(spd, dt) == (spd * dt) \div 5

\* removeAllPlatformsExceptRedFlag, helpers.js:927-946.
RemoveAllPlatformsExceptRedFlag(ps) ==
    SelectSeq(ps, LAMBDA p : p.isRedFlagPlatform)

\* platformCount of generateNewLevel, helpers.js:990-993.
NewLevelCount(lvl) == Max(10, (platformsPerLevel * (100 - 2 * lvl)) \div 100)

\* generateNewLevel(level, speed, scene), helpers.js:955-1005: the set is
\* emptied, createPlatform(true) is called on the empty set, and the loop
\* creates platformCount platforms, the first of them followed.
GenerateNewLevel(lvl) ==
    LET flag == CreatedPlatform(<<>>, TRUE, lvl, BaseDraw, "center",
                                [y |-> 0, z |-> -5])
        next == CreatedPlatform(<<flag>>, FALSE, lvl, BaseDraw, flag.type,
                                [y |-> flag.y, z |-> flag.z])
        rest == NewLevelCount(lvl) - 1
    IN  [ platforms |-> <<flag, next>>,
          lastPlatformPosition |-> [y |-> next.y, z |-> next.z - 6 * rest],
          lastPlatformType |->
              CHOOSE lane \in LanesAfter({next.type}, rest) : TRUE ]

\* cleanupPlatforms(ball.position, removeDistance, scene),
\* helpers.js:1088-1106: the platforms more than removeDistance behind the
\* ball are dropped.  z is the distance the ball has rolled, in eighths.
PlatformsNear(ps, z) ==
    LET Near(p) == p.z * 8 <= removeDistance * 8 - z
    IN  SelectSeq(ps, Near)

\* addPlatformsAsNeeded, helpers.js:1113-1117: the frontier the while loop
\* leaves.
FrontierAfter(z) ==
    IF z > platformSpawnZ
    THEN z - 6 * (((z - platformSpawnZ) + 5) \div 6)
    ELSE z

\* addPlatformsForNextLevel(scene, lvl), part_000:797-858: the platform
\* array is sorted in place, and generation goes on 20 units past the
\* furthest platform.
NextLevelPlatforms(ps, lastPos, lvl) ==
    LET sorted == SortByZ(ps)
        furthestZ == IF ps = <<>> THEN lastPos.z ELSE Min(sorted[1].z, lastPos.z)
    IN  [ platforms |-> sorted,
          lastPlatformPosition |->
              [lastPos EXCEPT !.z = furthestZ - 20 - 6 * NextLevelCount(lvl)] ]

\* The place a platform of ps has after the array is sorted.
PlaceIn(sorted, ps, on) ==
    IF on = 0 THEN 0
    ELSE CHOOSE i \in 1..Len(sorted) : sorted[i] = ps[on]

\* A faulty tick: the platforms move before the collisions are resolved.
SeenByResolverAdvanced(atEntry, advanced) == advanced

\* part_000:491-499: handlePlatformCollisions runs before
\* updateMovingPlatforms, on the positions the tick found.
SeenByResolver(atEntry, advanced) == atEntry

\* A faulty tick: the pause flag does not stop it.
SkipsTickUnpaused(over, started, paused) == over \/ ~started

\* part_000:403: the tick returns before the simulation.
SkipsTick(over, started, paused) == over \/ ~started \/ paused

\* The callbacks still pending after dt frames.
CountDown(ts, dt) ==
    [t \in DOMAIN ts |-> IF ts[t] > 0 THEN Max(ts[t] - dt, 0) ELSE ts[t]]

\* update(), part_000:388-676, for a ball followed up to limit.
RunTick(limit) ==
    /\ UNCHANGED probe
    /\ genMode \in {"ready", "idle"}
    /\ \A t \in DOMAIN timers : timers[t] # 0
    /\ gameState' = Frame
    /\ lastJump' = NoJump
    /\ \E dt \in DeltaFrames, on \in 0..Len(platforms), out \in BOOLEAN,
          crossed \in BOOLEAN, powerUp \in powerUpsAhead \cup {"none"} :
        IF SkipsTick(gameOver, gameStarted, isPaused)
        THEN LET held == ~ballReleased \/ (isPaused /\ isGrabbing)
             IN  /\ on = 0 /\ ~out /\ ~crossed /\ powerUp = "none"
                 /\ tickTrace' = [NoTick EXCEPT
                                     !.kind = "skipped",
                                     !.ballRise = IF held THEN clawAbove ELSE 0]
                 /\ clawAbove' = IF held THEN 0 ELSE clawAbove
                 /\ timers' = CountDown(timers, dt)
                 /\ collisionResult' = NoCollision
                 /\ UNCHANGED <<platforms, lastPlatformPosition,
                                lastPlatformType, genMode, level, speed,
                                jetpackFuel, gameOver, ballVelocityY,
                                isJumping, hasDoubleJumped, jumpChargeTime,
                                airEntryMethod, wasOnPlatform, extraJumps,
                                ballOn, doubleJumps, rearms, grabCount,
                                redFlagPlatformReached, score,
                                distanceTraveled, isGeneratingNextLevel,
                                isTransitioning, ballZ, generations,
                                endGameCalls>>
        ELSE LET inClaw == ~ballReleased \/ isGrabbing
                 onPlatformNow == IsOnPlatform
                 moved == UpdateBallPosition(BallNow,
                              keysSpace \/ virtualSpace, dt, isJetpackActive,
                              jetpackFuel, onPlatformNow, FALSE)
                 jet == IF inClaw THEN [ball |-> BallNow, fuel |-> jetpackFuel]
                        ELSE UpdateJetpack(moved, isJetpackActive, jetpackFuel)
                 z1 == IF inClaw THEN ballZ ELSE ballZ + Advance(speed, dt)
                 \* handlePlatformCollisions and its callback
                 advance(ps) == IF crossed THEN MovePlatforms(ps) ELSE ps
                 seen == SeenByResolver(platforms, advance(platforms))
                 res == HandlePlatformCollisions(seen, on, jet.ball, speed)
                 kept == IF res.reached
                         THEN RemoveAllPlatformsExceptRedFlag(platforms)
                         ELSE platforms
                 on1 == IF res.reached THEN PlaceIn(kept, platforms, on) ELSE on
                 flag1 == redFlagPlatformReached \/ res.reached
                 \* updateMovingPlatforms
                 platforms2 == advance(kept)
                 \* checkFallOutOfBounds
                 fallen == out /\ ~res.onPlatform /\ platforms2 # <<>>
                 \* cleanupPlatforms
                 near == PlatformsNear(platforms2, z1)
                 onNear == IF on1 = 0 THEN 0
                           ELSE PlaceIn(near, platforms2, on1)
                 \* addPlatformsAsNeeded
                 frontier == [lastPlatformPosition EXCEPT
                                 !.z = FrontierAfter(@)]
                 \* handlePowerUpCollisions
                 taken == powerUp
                 ball1 == [res.ball EXCEPT !.extraJumps =
                              IF taken = "extraJump" THEN @ + 1 ELSE @]
                 \* checkLevelCompletion
                 level1 == IF flag1 THEN level + 1 ELSE level
                 new == GenerateNewLevel(level1)
                 platforms3 == IF flag1 THEN new.platforms ELSE near
                 frontier3 == IF flag1 THEN new.lastPlatformPosition
                              ELSE frontier
                 z3 == IF flag1 THEN 15 * 8 ELSE z1
                 on3 == IF flag1 THEN 0 ELSE onNear
                 \* score and level thresholds
                 newScore == ScoreOf(z3)
                 scored == newScore > score
                 nextLevelThreshold == distanceForNextLevel * level1
                 generate == /\ scored
                             /\ newScore * 4 >= nextLevelThreshold * 3
                             /\ ~isGeneratingNextLevel /\ ~isTransitioning
                 next == NextLevelPlatforms(platforms3, frontier3, level1 + 1)
                 transit == /\ scored
                            /\ newScore >= nextLevelThreshold
                            /\ ~isTransitioning
                 counted == CountDown(timers, dt)
                 rearmed == Rearmed(BallNow, onPlatformNow, isJetpackActive,
                                    jetpackFuel)
             IN  /\ z1 <= limit * 8
                 /\ inClaw => on = 0 /\ ~out /\ powerUp = "none"
                 /\ Landable(on)
                 /\ on # 0 => PlatformsNear(<<platforms[on]>>, z1) # <<>>
                 /\ powerUp = "extraJump" => extraJumps < MaxExtraJumps
                 /\ powerUp = "jetpack" =>
                       jetpackFuel = 0 /\ res.ball.vy <= PickupCeiling
                 /\ powerUp = "SOS" => grabCount < MaxGrabs
                 /\ fallen => powerUp = "none"
                 /\ ~inClaw /\ ~res.onPlatform =>
                       rearms + rearmed <= MaxRearms
                 /\ collisionResult' = CollisionRecord(res, jet.ball, speed)
                 /\ speed' = res.speed
                 /\ doubleJumps' = IF res.onPlatform THEN 0 ELSE doubleJumps
                 /\ rearms' = IF res.onPlatform THEN 0
                              ELSE IF inClaw THEN rearms
                              ELSE rearms + rearmed
                 /\ clawAbove' = IF inClaw THEN 0 ELSE clawAbove
                 /\ IF fallen
                    THEN \* endGame(), and the tick returns
                         /\ gameOver' = TRUE
                         /\ endGameCalls' = endGameCalls + 1
                         /\ SetBall(res.ball)
                         /\ platforms' = platforms2
                         /\ ballOn' = on1
                         /\ ballZ' = z1
                         /\ jetpackFuel' = jet.fuel
                         /\ redFlagPlatformReached' = flag1
                         /\ timers' = counted
                         /\ tickTrace' = [ kind |-> "fell",
                                           resolvedAgainst |-> seen,
                                           ballRise |-> 0,
                                           reached |-> res.reached,
                                           completed |-> FALSE,
                                           positionSet |-> FALSE ]
                         /\ UNCHANGED <<lastPlatformPosition,
                                        lastPlatformType, genMode, level,
                                        grabCount, score, distanceTraveled,
                                        isGeneratingNextLevel,
                                        isTransitioning, generations>>
                    ELSE /\ SetBall(ball1)
                         /\ jetpackFuel' = IF taken = "jetpack"
                                           THEN jetpackPickupFuel ELSE jet.fuel
                         /\ grabCount' = IF taken = "SOS" THEN grabCount + 1
                                         ELSE grabCount
                         /\ genMode' = "idle"
                         /\ level' = level1
                         /\ redFlagPlatformReached' = FALSE
                         /\ ballZ' = z3
                         /\ platforms' = IF generate THEN next.platforms
                                         ELSE platforms3
                         /\ ballOn' = IF generate
                                      THEN PlaceIn(next.platforms, platforms3, on3)
                                      ELSE on3
                         /\ lastPlatformPosition' =
                               IF generate THEN next.lastPlatformPosition
                               ELSE frontier3
                         /\ lastPlatformType' =
                               IF flag1 THEN new.lastPlatformType
                               ELSE lastPlatformType
                         /\ score' = IF scored THEN newScore ELSE score
                         /\ distanceTraveled' = IF scored THEN newScore
                                                ELSE distanceTraveled
                         /\ isGeneratingNextLevel' =
                               (isGeneratingNextLevel \/ generate)
                         /\ isTransitioning' = (isTransitioning \/ transit)
                         /\ generations' =
                               IF flag1 THEN (IF generate THEN 1 ELSE 0)
                               ELSE IF generate THEN generations + 1
                               ELSE generations
                         /\ timers' =
                               [counted EXCEPT
                                   !.generation = IF generate
                                                  THEN generationDelay ELSE @,
                                   !.level = IF transit THEN levelDelay ELSE @]
                         /\ tickTrace' = [ kind |-> "running",
                                           resolvedAgainst |-> seen,
                                           ballRise |-> IF inClaw
                                                        THEN clawAbove ELSE 0,
                                           reached |-> res.reached,
                                           completed |-> flag1,
                                           positionSet |-> flag1 ]
                         /\ UNCHANGED <<gameOver, endGameCalls>>
    /\ UNCHANGED <<genLeft, nextLevelGenerated, created, spawnTrace,
                   laneTrace, isJetpackActive, gameStarted, ballReleased,
                   keysSpace, touchJumpActive, virtualSpace, powerUpsAhead,
                   isPaused, isGrabbing>>

Tick == RunTick(MaxDistance)

ShortTick == RunTick(ShortDistance)

\* The callbacks of the three setTimeout calls: part_000:612-614,
\* 649-674 and 671-673.
GenerationTimeout ==
    /\ UNCHANGED probe
    /\ timers.generation = 0
    /\ isGeneratingNextLevel' = FALSE
    /\ timers' = [timers EXCEPT !.generation = -1]
    /\ UNCHANGED <<platforms, lastPlatformPosition, lastPlatformType, genMode,
                   genLeft, nextLevelGenerated, created, spawnTrace,
                   laneTrace, level, speed, jetpackFuel, isJetpackActive,
                   gameStarted, ballReleased, gameOver, gameState,
                   ballVelocityY, isJumping, hasDoubleJumped, jumpChargeTime,
                   airEntryMethod, wasOnPlatform, extraJumps, ballOn,
                   keysSpace, touchJumpActive, virtualSpace, powerUpsAhead,
                   collisionResult, lastJump, doubleJumps, rearms, isPaused,
                   isGrabbing, grabCount, redFlagPlatformReached, score,
                   distanceTraveled, isTransitioning, ballZ, clawAbove,
                   generations, endGameCalls, tickTrace>>

LevelTimeout ==
    /\ UNCHANGED probe
    /\ timers.level = 0
    /\ level' = level + 1
    /\ generations' = 0
    /\ timers' = [timers EXCEPT !.level = -1, !.transition = transitionDelay]
    /\ UNCHANGED <<platforms, lastPlatformPosition, lastPlatformType, genMode,
                   genLeft, nextLevelGenerated, created, spawnTrace,
                   laneTrace, speed, jetpackFuel, isJetpackActive,
                   gameStarted, ballReleased, gameOver, gameState,
                   ballVelocityY, isJumping, hasDoubleJumped, jumpChargeTime,
                   airEntryMethod, wasOnPlatform, extraJumps, ballOn,
                   keysSpace, touchJumpActive, virtualSpace, powerUpsAhead,
                   collisionResult, lastJump, doubleJumps, rearms, isPaused,
                   isGrabbing, grabCount, redFlagPlatformReached, score,
                   distanceTraveled, isGeneratingNextLevel, isTransitioning,
                   ballZ, clawAbove, endGameCalls, tickTrace>>

TransitionTimeout ==
    /\ UNCHANGED probe
    /\ timers.transition = 0
    /\ isTransitioning' = FALSE
    /\ timers' = [timers EXCEPT !.transition = -1]
    /\ UNCHANGED <<platforms, lastPlatformPosition, lastPlatformType, genMode,
                   genLeft, nextLevelGenerated, created, spawnTrace,
                   laneTrace, level, speed, jetpackFuel, isJetpackActive,
                   gameStarted, ballReleased, gameOver, gameState,
                   ballVelocityY, isJumping, hasDoubleJumped, jumpChargeTime,
                   airEntryMethod, wasOnPlatform, extraJumps, ballOn,
                   keysSpace, touchJumpActive, virtualSpace, powerUpsAhead,
                   collisionResult, lastJump, doubleJumps, rearms, isPaused,
                   isGrabbing, grabCount, redFlagPlatformReached, score,
                   distanceTraveled, isGeneratingNextLevel, ballZ, clawAbove,
                   generations, endGameCalls, tickTrace>>

\* onKeyDown, the space key while the ball is grabbed, config.js:244-266
\* and 317-328: pauseGame(false) and endGrab() (abilities.js:247-294), which
\* puts the ball at the ship's height and stops it.
KeyDownSpaceGrabbing ==
    /\ UNCHANGED probe
    /\ ~gameOver
    /\ isGrabbing
    /\ gameStarted' = TRUE
    /\ isPaused' = FALSE
    /\ isGrabbing' = FALSE
    /\ ballVelocityY' = 0
    /\ clawAbove' = 0
    /\ collisionResult' = NoCollision
    /\ UNCHANGED <<platforms, lastPlatformPosition, lastPlatformType, genMode,
                   genLeft, nextLevelGenerated, created, spawnTrace,
                   laneTrace, level, speed, jetpackFuel, isJetpackActive,
                   ballReleased, gameOver, gameState, isJumping,
                   hasDoubleJumped, jumpChargeTime, airEntryMethod,
                   wasOnPlatform, extraJumps, ballOn, keysSpace,
                   touchJumpActive, virtualSpace, powerUpsAhead, lastJump,
                   doubleJumps, rearms, grabCount, redFlagPlatformReached,
                   score, distanceTraveled, isGeneratingNextLevel,
                   isTransitioning, timers, ballZ, generations, endGameCalls,
                   tickTrace>>

\* executeGrab, abilities.js:68-125, with pauseGame(true) (part_000:293-305)
\* and setClawPosition (helpers.js:314-330): the ship is put one unit above
\* the ball.
ExecuteGrab ==
    /\ UNCHANGED probe
    /\ grabCount > 0 /\ ~isGrabbing
    /\ isGrabbing' = TRUE
    /\ grabCount' = grabCount - 1
    /\ isPaused' = TRUE
    /\ clawAbove' = 1
    /\ UNCHANGED <<platforms, lastPlatformPosition, lastPlatformType, genMode,
                   genLeft, nextLevelGenerated, created, spawnTrace,
                   laneTrace, level, speed, jetpackFuel, isJetpackActive,
                   ballReleased, gameOver, gameState, ballVelocityY,
                   isJumping, hasDoubleJumped, jumpChargeTime, airEntryMethod,
                   wasOnPlatform, extraJumps, ballOn, keysSpace,
                   touchJumpActive, virtualSpace, powerUpsAhead,
                   collisionResult, lastJump, doubleJumps, rearms,
                   redFlagPlatformReached, score, distanceTraveled,
                   isGeneratingNextLevel, isTransitioning, timers, ballZ,
                   generations, endGameCalls, tickTrace>>

\* onKeyDown, the third tap of the up key, config.js:244-266 and 277-311.
KeyDownGrab ==
    /\ ~gameOver
    /\ ballReleased
    /\ gameStarted' = TRUE
    /\ ExecuteGrab

\* handleGrabTouch, config.js:894-916, wired at config.js:670-686 to the
\* ballReleased value window.gameState got in the last frame.
GrabTouch ==
    /\ gameState.ballReleased
    /\ UNCHANGED gameStarted
    /\ ExecuteGrab

\* The plain platform createPlatform builds first behind the starting
\* trampoline, along the base draw.
PlainPlatform ==
    NewPlatform(FALSE, 1, BaseDraw, "center", [y |-> 0, z |-> 0])

\* The platforms past the starting trampoline that the session follows:
\* two plain platforms.
SessionCourse ==
    << PlainPlatform,
       NewPlatform(FALSE, 1, BaseDraw, PlainPlatform.type,
                   [y |-> PlainPlatform.y, z |-> PlainPlatform.z]) >>

\* restartGame(), part_000:343-383, as a whole, createStartingPlatforms
\* included.  isPaused is not reset and the pending callbacks are not
\* cancelled.
RestartSessionTo(record) ==
    /\ probe' = record
    /\ genMode \in {"ready", "idle"}
    /\ score' = 0
    /\ level' = 1
    /\ speed' = initialSpeed
    /\ gameOver' = FALSE
    /\ gameStarted' = FALSE
    /\ ballReleased' = FALSE
    /\ jetpackFuel' = 0
    /\ isJetpackActive' = FALSE
    /\ redFlagPlatformReached' = FALSE
    /\ distanceTraveled' = 0
    /\ isTransitioning' = FALSE
    /\ isGeneratingNextLevel' = FALSE
    /\ SetBall(BallReset)
    /\ ballZ' = 0
    /\ ballOn' = 0
    /\ clawAbove' = ShipHeight - BallHeight
    /\ keysSpace' = FALSE
    /\ grabCount' = 0
    /\ isGrabbing' = FALSE
    /\ platforms' = SessionCourse
    /\ lastPlatformPosition' =
          [ y |-> SessionCourse[Len(SessionCourse)].y,
            z |-> SessionCourse[Len(SessionCourse)].z
                  - 6 * (platformsPerLevel - Len(SessionCourse)) ]
    /\ lastPlatformType' = SessionCourse[Len(SessionCourse)].type
    /\ genMode' = "ready"
    /\ collisionResult' = NoCollision
    /\ lastJump' = NoJump
    /\ doubleJumps' = 0
    /\ rearms' = 0
    /\ generations' = 0
    /\ endGameCalls' = 0
    /\ UNCHANGED <<genLeft, nextLevelGenerated, created, spawnTrace,
                   laneTrace, gameState, touchJumpActive, virtualSpace,
                   powerUpsAhead, isPaused, timers, tickTrace>>

RestartSession == RestartSessionTo(probe)

\* The space key pressed to let the ball go, and not again while it rolls.
ReleaseBall == ~ballReleased /\ KeyDownSpace

\* The callback update() hands to handlePlatformCollisions,
\* part_000:491-495, called while the ball lies on the goal platform.
OnRedFlagPlatformReached ==
    /\ UNCHANGED probe
    /\ ~SkipsTick(gameOver, gameStarted, isPaused)
    /\ ballReleased
    /\ ballOn # 0
    /\ platforms[ballOn].isRedFlagPlatform
    /\ ~redFlagPlatformReached
    /\ platforms' = RemoveAllPlatformsExceptRedFlag(platforms)
    /\ ballOn' = PlaceIn(RemoveAllPlatformsExceptRedFlag(platforms),
                         platforms, ballOn)
    /\ redFlagPlatformReached' = TRUE
    /\ UNCHANGED <<lastPlatformPosition, lastPlatformType, genMode,
                   genLeft, nextLevelGenerated, created, spawnTrace,
                   laneTrace, level, speed, jetpackFuel, isJetpackActive,
                   gameStarted, ballReleased, gameOver, gameState,
                   ballVelocityY, isJumping, hasDoubleJumped, jumpChargeTime,
                   airEntryMethod, wasOnPlatform, extraJumps, keysSpace,
                   touchJumpActive, virtualSpace, powerUpsAhead,
                   collisionResult, lastJump, doubleJumps, rearms, isPaused,
                   isGrabbing, grabCount, score, distanceTraveled,
                   isGeneratingNextLevel, isTransitioning, timers, ballZ,
                   clawAbove, generations, endGameCalls, tickTrace>>

-----------------------------------------------------------------------------
(* Initial states and specifications.                                      *)

\* The session and the ball when the modules are loaded, part_000:94-112,
\* platform.js:1050-1060, config.js:172 and 520-540.
InitBallState ==
    /\ speed = initialSpeed
    /\ jetpackFuel = 0
    /\ isJetpackActive = FALSE
    /\ gameStarted = FALSE
    /\ ballReleased = FALSE
    /\ gameOver = FALSE
    /\ gameState = [gameOver |-> FALSE, ballReleased |-> FALSE,
                    jetpackFuel |-> 0, gameStarted |-> FALSE]
    /\ ballVelocityY = BallReset.vy
    /\ isJumping = BallReset.isJumping
    /\ hasDoubleJumped = BallReset.hasDoubleJumped
    /\ jumpChargeTime = BallReset.jumpChargeTime
    /\ airEntryMethod = BallReset.airEntryMethod
    /\ wasOnPlatform = BallReset.wasOnPlatform
    /\ extraJumps = BallReset.extraJumps
    /\ ballOn = 0
    /\ keysSpace = FALSE
    /\ touchJumpActive = FALSE
    /\ virtualSpace = FALSE
    /\ collisionResult = NoCollision
    /\ lastJump = NoJump
    /\ doubleJumps = 0
    /\ rearms = 0
    /\ isPaused = FALSE
    /\ isGrabbing = FALSE
    /\ grabCount = 0
    /\ redFlagPlatformReached = FALSE
    /\ score = 0
    /\ distanceTraveled = 0
    /\ isGeneratingNextLevel = FALSE
    /\ isTransitioning = FALSE
    /\ timers = NoTimers
    /\ ballZ = 0
    /\ clawAbove = ShipHeight - BallHeight
    /\ generations = 0
    /\ endGameCalls = 0
    /\ tickTrace = NoTick

\* No function is applied on its own.
NoProbe == [fn |-> "none"]

InitBallVars == InitBallState /\ probe = NoProbe

\* The platform module when it is loaded, helpers.js:381-385.
InitGen ==
    /\ platforms = <<>>
    /\ lastPlatformPosition = [y |-> 0, z |-> 0]
    /\ lastPlatformType = "center"
    /\ genMode = "loaded"
    /\ genLeft = 0
    /\ nextLevelGenerated = FALSE
    /\ created = 0
    /\ spawnTrace = [prev |-> 0, last |-> 0]
    /\ laneTrace = [prev |-> "center", new |-> "center"]
    /\ level = 1
    /\ InitBallVars
    /\ powerUpsAhead = {}

\* init(), part_000:118-180: the starting platforms.
InitGame ==
    /\ genMode = "loaded"
    /\ StartingPlatforms
    /\ UNCHANGED <<level, ballVars>>

\* restartGame(), part_000:343-383, as far as the platforms go: the ball
\* and the session are back at their initial values, where this
\* specification leaves them.
RestartGame ==
    /\ genMode \in {"ready", "idle"}
    /\ level' = 1
    /\ StartingPlatforms
    /\ UNCHANGED ballVars

NextGen ==
    \/ InitGame
    \/ StartingLoop
    \/ SkipIterations
    \/ AddPlatformsAsNeeded
    \/ AsNeededLoop
    \/ SkipToFrontier
    \/ UpdateMovingPlatforms
    \/ CleanupPlatforms
    \/ AddPlatformsForNextLevel
    \/ NextLevelLoop
    \/ LevelUp
    \/ RestartGame

SpecGen == InitGen /\ [][NextGen]_vars

\* Courses for the ball, as createPlatform builds their platforms: the
\* starting trampoline and a plain platform, and these with a slow-down
\* trampoline behind them.
SlowDownTrampoline ==
    NewPlatform(FALSE, 1, [BaseDraw EXCEPT !.typeRoll = 200],
                PlainPlatform.type, [y |-> PlainPlatform.y, z |-> PlainPlatform.z])

BallCourse == <<StartTrampoline, PlainPlatform>>

SpeedCourse == <<StartTrampoline, PlainPlatform, SlowDownTrampoline>>

\* A session on a course whose platforms further ahead are not followed,
\* with power-ups of the given kinds spawned along it.
InitCourse(course, kinds) ==
    /\ platforms = course
    /\ lastPlatformPosition = [y |-> course[Len(course)].y,
                               z |-> platformSpawnZ - 1]
    /\ lastPlatformType = course[Len(course)].type
    /\ genMode = "idle"
    /\ genLeft = 0
    /\ nextLevelGenerated = FALSE
    /\ created = Len(course) - 1
    /\ spawnTrace = [prev |-> course[Len(course) - 1].y,
                     last |-> course[Len(course)].y]
    /\ laneTrace = [prev |-> course[Len(course) - 1].type,
                    new |-> course[Len(course)].type]
    /\ level = 1
    /\ InitBallVars
    /\ powerUpsAhead = kinds

\* The jump logic under keyboard and touch, with extra-jump tokens.
InitBall == InitCourse(BallCourse, {"extraJump"})

NextBall ==
    \/ KeyDownSpace
    \/ KeyUpSpace
    \/ JumpTouchStart
    \/ JumpTouchEnd
    \/ Update

SpecBall == InitBall /\ [][NextBall]_vars

\* The jetpack under the keyboard.
InitJet == InitCourse(BallCourse, {"jetpack"})

NextJet ==
    \/ KeyDownSpace
    \/ KeyUpSpace
    \/ Update
    \/ JetpackBurn

SpecJet == InitJet /\ [][NextJet]_vars

\* The trampolines under the keyboard.
InitSpeed == InitCourse(SpeedCourse, {})

NextSpeed ==
    \/ KeyDownSpace
    \/ KeyUpSpace
    \/ Update

SpecSpeed == InitSpeed /\ [][NextSpeed]_vars

\* A course with a platform that swings up and down and, behind it, the
\* goal platform as createPlatform(true, ...) builds it on a platform set
\* that is not empty.
MovingPlatform ==
    NewPlatform(FALSE, 1,
                [BaseDraw EXCEPT !.moveRoll = 0, !.movementTypeRand = 20],
                PlainPlatform.type,
                [y |-> PlainPlatform.y, z |-> PlainPlatform.z])

GoalPlatform ==
    NewPlatform(TRUE, 1, BaseDraw, MovingPlatform.type,
                [y |-> MovingPlatform.y, z |-> MovingPlatform.z])

GoalCourse == <<PlainPlatform, MovingPlatform, GoalPlatform>>

\* The tick and the goal: the ball let go over the goal course.
InitGoal == InitCourse(GoalCourse, {})

NextGoal ==
    \/ ReleaseBall
    \/ KeyUpSpace
    \/ ShortTick
    \/ OnRedFlagPlatformReached

SpecGoal == InitGoal /\ [][NextGoal]_vars

\* The state init() and startGame() leave (part_000:118-180, 310-326), with
\* power-ups of the given kinds spawned along the session course.
InitSessionCourse(kinds) ==
    /\ platforms = SessionCourse
    /\ lastPlatformPosition =
          [ y |-> SessionCourse[Len(SessionCourse)].y,
            z |-> SessionCourse[Len(SessionCourse)].z
                  - 6 * (platformsPerLevel - Len(SessionCourse)) ]
    /\ lastPlatformType = SessionCourse[Len(SessionCourse)].type
    /\ genMode = "ready"
    /\ genLeft = 0
    /\ nextLevelGenerated = FALSE
    /\ created = Len(SessionCourse)
    /\ spawnTrace = [prev |-> SessionCourse[1].y, last |-> SessionCourse[2].y]
    /\ laneTrace = [prev |-> SessionCourse[1].type,
                    new |-> SessionCourse[2].type]
    /\ level = 1
    /\ InitBallVars
    /\ powerUpsAhead = kinds

\* The session: the ball let go and rolling along the session course, the
\* level logic with its timers, and the restart.
InitSession == InitSessionCourse({})

NextSession ==
    \/ ReleaseBall
    \/ Tick
    \/ GenerationTimeout
    \/ LevelTimeout
    \/ TransitionTimeout
    \/ RestartSession

SpecSession == InitSession /\ [][NextSession]_vars

\* The grab: the first stretch of the session course, with grab power-ups
\* along it.
InitGrab == InitSessionCourse({"SOS"})

NextGrab ==
    \/ ReleaseBall
    \/ KeyUpSpace
    \/ ShortTick
    \/ KeyDownGrab
    \/ GrabTouch
    \/ KeyDownSpaceGrabbing
    \/ RestartSession

SpecGrab == InitGrab /\ [][NextGrab]_vars

-----------------------------------------------------------------------------
(* Functions of the program applied on their own, to arguments drawn from  *)
(* small sets.  The arguments and the value returned are kept in probe.    *)

\* Every variable but probe.
programVars ==
    <<platforms, lastPlatformPosition, lastPlatformType, genMode, genLeft,
      nextLevelGenerated, created, spawnTrace, laneTrace, level, speed,
      jetpackFuel, isJetpackActive, gameStarted, ballReleased, gameOver,
      gameState, ballVelocityY, isJumping, hasDoubleJumped, jumpChargeTime,
      airEntryMethod, wasOnPlatform, extraJumps, ballOn, keysSpace,
      touchJumpActive, virtualSpace, powerUpsAhead, collisionResult,
      lastJump, doubleJumps, rearms, isPaused, isGrabbing, grabCount,
      redFlagPlatformReached, score, distanceTraveled,
      isGeneratingNextLevel, isTransitioning, timers, ballZ, clawAbove,
      generations, endGameCalls, tickTrace>>

\* The session just loaded, with the platform set ps.
InitWithPlatforms(ps) ==
    /\ platforms = ps
    /\ lastPlatformPosition = [y |-> 0, z |-> 0]
    /\ lastPlatformType = "center"
    /\ genMode = "idle"
    /\ genLeft = 0
    /\ nextLevelGenerated = FALSE
    /\ created = 0
    /\ spawnTrace = [prev |-> 0, last |-> 0]
    /\ laneTrace = [prev |-> "center", new |-> "center"]
    /\ level = 1
    /\ InitBallState
    /\ powerUpsAhead = {}

\* fallThreshold = 30, collision.js:104.
fallThreshold == 30

\* The collision test of checkPlatformCollision for one platform,
\* helpers.js:1021-1059, for a ball above the platform's x range: the disc
\* within 0.9 of the radius, the box with 0.8 of the ball's radius, the
\* ball's underside within 0.5 of the platform's top.
InCollisionBox(p, ball) ==
    /\ IF p.isRoundPlatform
       THEN Abs(ball.z - p.z) * 10 <= p.radius * 9
       ELSE /\ ball.z * 10 + 8 >= p.z * 10 - p.depth * 5
            /\ ball.z * 10 - 8 <= p.z * 10 + p.depth * 5
    /\ Abs(2 * ball.y - 2 * p.y - 3) <= 1

\* The platform the loop of checkPlatformCollision stops at,
\* helpers.js:1016-1070: the first in array order, 0 for none.
FirstHit(ps, ball) ==
    IF \E i \in 1..Len(ps) : InCollisionBox(ps[i], ball)
    THEN CHOOSE i \in 1..Len(ps) :
            /\ InCollisionBox(ps[i], ball)
            /\ \A j \in 1..(i - 1) : ~InCollisionBox(ps[j], ball)
    ELSE 0

\* The platforms ahead of the ball or below it, collision.js:115-124.
ValidPlatforms(ps, ball) ==
    LET Valid(p) == p.z <= ball.z \/ p.y <= ball.y
    IN  SelectSeq(ps, Valid)

\* The loop of collision.js:132-137, on a set that is not empty.
HighestPlatformY(ps) ==
    CHOOSE y \in {ps[i].y : i \in 1..Len(ps)} :
        \A i \in 1..Len(ps) : ps[i].y <= y

\* A faulty check: every platform counts.
CheckFallOutOfBoundsAll(ps, ball) ==
    IF ps = <<>> THEN FALSE
    ELSE ball.y < HighestPlatformY(ps) - fallThreshold

\* A faulty check: with no platform the ball is measured from the origin.
CheckFallOutOfBoundsFromOrigin(ps, ball) ==
    IF ps = <<>> THEN ball.y < 0 - fallThreshold
    ELSE LET valid == ValidPlatforms(ps, ball)
             validPlatforms == IF valid = <<>> THEN ps ELSE valid
         IN  ball.y < HighestPlatformY(validPlatforms) - fallThreshold

\* checkFallOutOfBounds(platforms, fallThreshold), collision.js:104-140.
CheckFallOutOfBounds(ps, ball) ==
    IF ps = <<>> THEN FALSE
    ELSE LET valid == ValidPlatforms(ps, ball)
             validPlatforms == IF valid = <<>> THEN ps ELSE valid
         IN  ball.y < HighestPlatformY(validPlatforms) - fallThreshold

\* Platforms and balls the resolver and the fall check are applied to.
ProbePlatform(effect, y, z) ==
    [ StartPlatform EXCEPT !.width = 10, !.depth = 10, !.y = y, !.z = z,
                           !.originalY = y, !.originalZ = z,
                           !.bounceEffect = effect,
                           !.isTrampoline = (effect = "forward") ]

\* The goal's disc, helpers.js:567-574, laid under the ball.
ProbeDisc ==
    [ GoalPlatform EXCEPT !.y = 0, !.z = -20, !.originalY = 0,
                          !.originalZ = -20 ]

ProbePlatforms ==
    { ProbePlatform("none", y, z) : y \in {-45, 0, 5}, z \in {-20, 5} }
    \cup { ProbePlatform("forward", 0, -20), ProbeDisc }

MaxProbeSet == 2

ProbeSets ==
    UNION { [1..n -> ProbePlatforms] : n \in 0..MaxProbeSet }

ProbeBalls ==
    [ y : {-76, -31, -30, -26, 2, 7}, z : {-20, 0}, vy : {-60, 0, 60} ]

\* A faulty snap: only a falling ball is put on the surface.
SnapToSurfaceFalling(ps, on, ball, onPlatform) ==
    IF onPlatform /\ ball.vy < 0 THEN 2 * ps[on].y + 1 + 2 ELSE 2 * ball.y

\* ball.position.y = platformInfo.platformY + platformInfo.ballRadius,
\* collision.js:43-45, with platformY = position.y + 0.5 and ballRadius 1
\* (helpers.js:1014, 1036, 1045): twice the ball's y after the resolver.
SnapToSurface(ps, on, ball, onPlatform) ==
    IF onPlatform THEN 2 * ps[on].y + 1 + 2 ELSE 2 * ball.y

\* The resolver and the fall check of one tick, part_000:491-505, applied
\* to the ball of the probe.
ResolveAlone ==
    /\ probe.fn = "ball"
    /\ LET b == [BallNow EXCEPT !.vy = probe.ball.vy]
           res == HandlePlatformCollisions(platforms,
                      FirstHit(platforms, probe.ball), b, speed)
       IN  probe' = [ fn |-> "resolved", ball |-> probe.ball, before |-> b,
                      onPlatform |-> res.onPlatform,
                      bounceEffect |-> res.bounceEffect,
                      after |-> res.ball, speed |-> res.speed,
                      twiceY |-> SnapToSurface(platforms,
                                    FirstHit(platforms, probe.ball),
                                    probe.ball, res.onPlatform),
                      fell |-> CheckFallOutOfBounds(platforms, probe.ball) ]
    /\ UNCHANGED programVars

InitFall ==
    /\ \E ps \in ProbeSets : InitWithPlatforms(ps)
    /\ \E ball \in ProbeBalls : probe = [fn |-> "ball", ball |-> ball]

NextFall == ResolveAlone

SpecFall == InitFall /\ [][NextFall]_vars

\* restartGame applied to a session under way.  The sessions and balls it
\* is applied to: the level and the distance rolled, and the ball at rest,
\* after a jump, after a double jump, after a bounce and after a fall.
RestartSessions ==
    { [level |-> 1, score |-> 0], [level |-> 1, score |-> 120],
      [level |-> 3, score |-> 1200] }

RestartBalls ==
    { BallReset,
      [BallReset EXCEPT !.vy = jumpForce, !.isJumping = TRUE,
                        !.airEntryMethod = "jumped", !.wasOnPlatform = TRUE],
      [BallReset EXCEPT !.vy = 0 - 60, !.isJumping = TRUE,
                        !.hasDoubleJumped = TRUE,
                        !.airEntryMethod = "jumped"],
      [BallReset EXCEPT !.vy = (maxJumpForce * 3) \div 2,
                        !.airEntryMethod = "bounced"],
      [BallReset EXCEPT !.vy = 0 - 30, !.airEntryMethod = "fell"] }

InitRestart ==
    /\ platforms \in {SessionCourse, GoalCourse}
    /\ lastPlatformPosition = [y |-> platforms[Len(platforms)].y,
                               z |-> platformSpawnZ - 1]
    /\ lastPlatformType = platforms[Len(platforms)].type
    /\ genMode = "idle"
    /\ genLeft = 0
    /\ nextLevelGenerated = FALSE
    /\ created = Len(platforms)
    /\ spawnTrace = [prev |-> platforms[Len(platforms) - 1].y,
                     last |-> platforms[Len(platforms)].y]
    /\ laneTrace = [prev |-> platforms[Len(platforms) - 1].type,
                    new |-> platforms[Len(platforms)].type]
    /\ \E session \in RestartSessions :
          /\ level = session.level
          /\ score = session.score
          /\ distanceTraveled = session.score
          /\ ballZ = session.score * 8
    /\ speed \in {initialSpeed - 1, initialSpeed, initialSpeed + 2}
    /\ jetpackFuel \in {0, jetpackPickupFuel}
    /\ isJetpackActive = FALSE
    /\ gameStarted = TRUE
    /\ ballReleased = TRUE
    /\ gameOver \in BOOLEAN
    /\ gameState = [gameOver |-> gameOver, ballReleased |-> TRUE,
                    jetpackFuel |-> jetpackFuel, gameStarted |-> TRUE]
    /\ \E b \in RestartBalls, credits \in 0..MaxExtraJumps :
          /\ ballVelocityY = b.vy
          /\ isJumping = b.isJumping
          /\ hasDoubleJumped = b.hasDoubleJumped
          /\ jumpChargeTime = b.jumpChargeTime
          /\ airEntryMethod = b.airEntryMethod
          /\ wasOnPlatform = b.wasOnPlatform
          /\ extraJumps = credits
    /\ ballOn = 0
    /\ keysSpace = FALSE
    /\ touchJumpActive = FALSE
    /\ virtualSpace = FALSE
    /\ powerUpsAhead = {}
    /\ collisionResult = NoCollision
    /\ lastJump = NoJump
    /\ doubleJumps = 0
    /\ rearms = 0
    /\ isPaused = FALSE
    /\ isGrabbing = FALSE
    /\ grabCount \in 0..MaxGrabs
    /\ redFlagPlatformReached = FALSE
    /\ isGeneratingNextLevel = FALSE
    /\ isTransitioning = FALSE
    /\ timers = NoTimers
    /\ clawAbove = 0
    /\ generations = 0
    /\ endGameCalls = IF gameOver THEN 1 ELSE 0
    /\ tickTrace = NoTick
    /\ probe = [fn |-> "restart"]

\* restartGame(), recorded with the state it was called in.
RestartAlone ==
    /\ probe.fn = "restart"
    /\ RestartSessionTo(
          [fn |-> "restarted",
           before |-> [score |-> score, level |-> level, speed |-> speed,
                       jetpackFuel |-> jetpackFuel, grabCount |-> grabCount,
                       gameOver |-> gameOver, ball |-> BallNow,
                       platforms |-> platforms]])

NextRestart == RestartAlone

SpecRestart == InitRestart /\ [][NextRestart]_vars

\* updateBallPosition applied on its own.  The balls it is applied to, with
\* the value of isOnPlatform() at entry and whether |ballVelocity.x| > 0.01.
LeaveBalls ==
    [ vy : {0 - 60, 0, jumpForce}, isJumping : BOOLEAN,
      hasDoubleJumped : BOOLEAN, jumpChargeTime : {0},
      airEntryMethod : {"", "jumped", "bounced", "rolled", "fell"},
      wasOnPlatform : BOOLEAN, extraJumps : {0} ]

InitLeave ==
    /\ InitWithPlatforms(BallCourse)
    /\ \E b \in LeaveBalls, onPlatformNow \in BOOLEAN, fast \in BOOLEAN :
          probe = [fn |-> "frame", ball |-> b,
                   onPlatformNow |-> onPlatformNow, fast |-> fast]

\* updateBallPosition, platform.js:1121-1232, with no key held and no
\* jetpack, recorded.
MoveAlone ==
    /\ probe.fn = "frame"
    /\ \E dt \in DeltaFrames :
          probe' = [ fn |-> "moved", before |-> probe.ball,
                     onPlatformNow |-> probe.onPlatformNow,
                     fast |-> probe.fast,
                     after |-> UpdateBallPosition(probe.ball, FALSE, dt,
                                  FALSE, 0, probe.onPlatformNow, probe.fast) ]
    /\ UNCHANGED programVars

NextLeave == MoveAlone

SpecLeave == InitLeave /\ [][NextLeave]_vars

\* The ball riding a moving platform: updateBallPosition, the resolver and
\* updateMovingPlatforms over the frames in which the ball is above the
\* platform's depth.  Positions are in 1/600 of a unit, as the velocities;
\* movementProgress is counted in 64ths of a turn, one per tick of
\* RideFrames frames.
RideFrames == 5
RideTurn == 64
horizontalRange == 10

\* 100 * sin(k * pi / 32), k = 0..16.
SinHundredths ==
    << 0, 10, 20, 29, 38, 47, 56, 63, 71, 77, 83, 88, 92, 96, 98, 100, 100 >>

RideSin(k) ==
    LET q == k % RideTurn
    IN  IF q <= 16 THEN SinHundredths[q + 1]
        ELSE IF q <= 32 THEN SinHundredths[33 - q]
        ELSE IF q <= 48 THEN 0 - SinHundredths[q - 31]
        ELSE 0 - SinHundredths[65 - q]

\* originalPosition + sin(movementProgress) * movementRange,
\* helpers.js:1346-1359, the original position at the origin.
RidePosition(type, k) ==
    [ x |-> IF type = "horizontal" THEN RideSin(k) * horizontalRange * 6
            ELSE 0,
      y |-> IF type = "vertical" THEN RideSin(k) * verticalRange * 6 ELSE 0 ]

\* A platform 8 wide that has been moving: its position and the position
\* cached by the last advance.
RidePlatform(type, k) ==
    [ movementType |-> type, width |-> 8 * 600, movementProgress |-> k,
      position |-> RidePosition(type, k),
      lastPosition |-> RidePosition(type, k + RideTurn - 1) ]

\* A faulty advance: the position is not cached.
RideAdvanceNoCache(p) ==
    [p EXCEPT !.movementProgress = (@ + 1) % RideTurn,
              !.position = RidePosition(p.movementType,
                                        p.movementProgress + 1)]

\* updateMovingPlatforms for one platform, helpers.js:1329-1359.
RideAdvance(p) ==
    [p EXCEPT !.lastPosition = p.position,
              !.movementProgress = (@ + 1) % RideTurn,
              !.position = RidePosition(p.movementType,
                                        p.movementProgress + 1)]

\* getCurrentPlatform / checkPlatformCollision for the rectangle,
\* helpers.js:1044-1059, along x and y.
RideOn(ball, p) ==
    /\ ball.x + 480 >= p.position.x - p.width \div 2
    /\ ball.x - 480 <= p.position.x + p.width \div 2
    /\ Abs(ball.y - 600 - (p.position.y + 300)) <= 300
    /\ ball.vy <= 0

\* The platform's movement applied to the ball, platform.js:1156-1180.
RideShift(ball, p, onPlatformNow) ==
    IF onPlatformNow
    THEN [ball EXCEPT !.x = @ + (p.position.x - p.lastPosition.x),
                      !.y = @ + (p.position.y - p.lastPosition.y)]
    ELSE ball

MaxRideJumps == 1

\* One tick, part_000:455-505: the shift, gravity, the resolver with its
\* snap to the platform's top (collision.js:43-44), updateMovingPlatforms
\* and the fall check.  on: the ball is on the platform at entry; rested:
\* it is, and the resolver of the tick before had put it there.
RideFrame ==
    /\ probe.fn = "ride"
    /\ ~probe.fell
    /\ LET p == probe.platform
           b == probe.ball
           onPlatformNow == RideOn(b, p)
           shifted == RideShift(b, p, onPlatformNow)
           vy1 == Max(shifted.vy - gravity * RideFrames, terminalVelocity)
           moved == [shifted EXCEPT !.vy = vy1, !.y = @ + vy1 * RideFrames]
           landed == IF RideOn(moved, p)
                     THEN [moved EXCEPT !.vy = IF vy1 < 0 THEN 0 ELSE vy1,
                                        !.y = p.position.y + 300 + 600]
                     ELSE moved
           advanced == RideAdvance(p)
       IN  probe' = [ fn |-> "ride", platform |-> advanced, ball |-> landed,
                      fell |-> landed.y < advanced.position.y
                                           - fallThreshold * 600,
                      jumps |-> probe.jumps,
                      on |-> onPlatformNow,
                      rested |-> (onPlatformNow /\ probe.landed),
                      restedBefore |-> probe.rested,
                      landed |-> RideOn(moved, p),
                      delta |-> [x |-> p.position.x - p.lastPosition.x,
                                 y |-> p.position.y - p.lastPosition.y],
                      shift |-> [x |-> shifted.x - b.x, y |-> shifted.y - b.y],
                      offset |-> [x |-> shifted.x - p.position.x,
                                  y |-> shifted.y - p.position.y],
                      offsetBefore |-> probe.offset ]
    /\ UNCHANGED programVars

\* The jump key pressed on the platform: jump(false), platform.js:1311-1316.
RideJump ==
    /\ probe.fn = "ride"
    /\ ~probe.fell
    /\ probe.jumps < MaxRideJumps
    /\ RideOn(probe.ball, probe.platform)
    /\ probe' = [probe EXCEPT !.ball.vy = jumpForce, !.jumps = @ + 1]
    /\ UNCHANGED programVars

InitRide ==
    /\ InitWithPlatforms(BallCourse)
    /\ \E type \in {"horizontal", "vertical"}, k \in {0, 16},
          away \in {0 - 600, 0, 1200} :
          LET p == RidePlatform(type, k)
          IN  probe = [ fn |-> "ride", platform |-> p,
                        ball |-> [x |-> p.lastPosition.x + away,
                                  y |-> p.lastPosition.y + 300 + 600,
                                  vy |-> 0],
                        fell |-> FALSE, jumps |-> 0, on |-> FALSE,
                        rested |-> FALSE, restedBefore |-> FALSE,
                        landed |-> TRUE,
                        delta |-> [x |-> 0, y |-> 0],
                        shift |-> [x |-> 0, y |-> 0],
                        offset |-> [x |-> 0, y |-> 0],
                        offsetBefore |-> [x |-> 0, y |-> 0] ]

NextRide ==
    \/ RideFrame
    \/ RideJump

SpecRide == InitRide /\ [][NextRide]_vars

\* createPlatform applied on its own: the levels, the draws that decide the
\* effect and the movement, and the platform sets it is called with.
MaxProbeLevel == 15

MovingDraws ==
    { [BaseDraw EXCEPT !.typeRoll = t, !.level2Roll = a, !.moveRoll = m,
                       !.hvRoll = h, !.movementTypeRand = r] :
        t \in {100, 180, 500}, a \in {30, 70}, m \in {5, 50},
        h \in {30, 70}, r \in {0, 50, 99} }

InitMoving ==
    /\ \E ps \in {<<>>, BallCourse} : InitWithPlatforms(ps)
    /\ \E lvl \in 1..MaxProbeLevel, isRedFlag \in BOOLEAN, d \in MovingDraws :
          probe = [fn |-> "create", level |-> lvl, isRedFlag |-> isRedFlag,
                   draw |-> d]

\* createPlatform(isRedFlag, scene, level), helpers.js:394-829, recorded.
CreateAlone ==
    /\ probe.fn = "create"
    /\ probe' = [ fn |-> "created", level |-> probe.level,
                  isRedFlag |-> probe.isRedFlag, draw |-> probe.draw,
                  first |-> (platforms = <<>>),
                  platform |-> CreatedPlatform(platforms, probe.isRedFlag,
                                   probe.level, probe.draw, lastPlatformType,
                                   lastPlatformPosition) ]
    /\ UNCHANGED programVars

NextMoving == CreateAlone

SpecMoving == InitMoving /\ [][NextMoving]_vars

-----------------------------------------------------------------------------
(* The power-ups the ball touches (SpecPickup): checkPowerUpCollisions     *)
(* applied to a list of power-ups. Distances are in tenths of a unit.      *)

MaxPowerUps == 2

PowerUpTypes == {"jetpack", "extraJump", "SOS"}

\* Distances from the ball's centre on both sides of each collision radius.
PowerUpDistances == {17, 18, 22, 25}

\* ballRadius + collisionRadius, powerup.js:150 and 160-165.
TouchDistance(type) ==
    10 + (IF type = "extraJump" THEN 12 ELSE IF type = "SOS" THEN 15 ELSE 8)

\* distance < ballRadius + collisionRadius, powerup.js:167.
Touches(p) == p.distance < TouchDistance(p.type)

\* An extra-jump power-up that counts twice.
TakePowerUpTwice(st, p) ==
    IF p.type = "jetpack" THEN [st EXCEPT !.jetpackFuel = jetpackPickupFuel]
    ELSE IF p.type = "extraJump" THEN [st EXCEPT !.extraJumps = @ + 2]
    ELSE [st EXCEPT !.grabCount = @ + 1]

\* The effect of a power-up, powerup.js:169-185, through the callbacks of
\* part_000:544-552 (jetpackFuel = newFuel, addExtraJumps(amount)) and
\* addGrab, abilities.js:40-43.
TakePowerUp(st, p) ==
    IF p.type = "jetpack" THEN [st EXCEPT !.jetpackFuel = jetpackPickupFuel]
    ELSE IF p.type = "extraJump" THEN [st EXCEPT !.extraJumps = @ + 1]
    ELSE [st EXCEPT !.grabCount = @ + 1]

\* powerUps.splice(i, 1), powerup.js:189.
SpliceOut(s, i) == SubSeq(s, 1, i - 1) \o SubSeq(s, i + 1, Len(s))

\* The loop of checkPowerUpCollisions, powerup.js:154-191, from the last
\* power-up to the first.
RECURSIVE CheckPowerUpsFrom(_, _)
CheckPowerUpsFrom(i, st) ==
    IF i < 1 THEN st
    ELSE IF Touches(st.powerUps[i])
         THEN CheckPowerUpsFrom(i - 1,
                 [TakePowerUp(st, st.powerUps[i]) EXCEPT
                     !.powerUps = SpliceOut(@, i)])
         ELSE CheckPowerUpsFrom(i - 1, st)

\* checkPowerUpCollisions, powerup.js:140-196.
CheckPowerUpCollisions(st) == CheckPowerUpsFrom(Len(st.powerUps), st)

PowerUpLists ==
    UNION { [1..n -> [type : PowerUpTypes, distance : PowerUpDistances]] :
              n \in 0..MaxPowerUps }

InitPickup ==
    /\ InitWithPlatforms(BallCourse)
    /\ \E ps \in PowerUpLists, fuel \in {0, 40}, jumps \in 0..1,
          grabs \in 0..1 :
          probe = [fn |-> "check",
                   before |-> [powerUps |-> ps, jetpackFuel |-> fuel,
                               extraJumps |-> jumps, grabCount |-> grabs]]

\* handlePowerUpCollisions, collision.js:75-96, as update calls it,
\* part_000:539-553.
PickupAlone ==
    /\ probe.fn = "check"
    /\ probe' = [fn |-> "checked", before |-> probe.before,
                 after |-> CheckPowerUpCollisions(probe.before)]
    /\ UNCHANGED programVars

NextPickup == PickupAlone

SpecPickup == InitPickup /\ [][NextPickup]_vars

\* The extra-jump credit: the ball over the ball course with extra-jump
\* power-ups along it, under the keyboard, the tick and restartGame.
InitCredit == InitCourse(BallCourse, {"extraJump"})

NextCredit ==
    \/ KeyDownSpace
    \/ KeyUpSpace
    \/ Update
    \/ RestartSession

SpecCredit == InitCredit /\ [][NextCredit]_vars

-----------------------------------------------------------------------------
(* The grab on its own (SpecExecute): executeGrab, the release of the      *)
(* grabbed ball, addGrab and resetAbilities applied to the grab state kept *)
(* in probe.                                                               *)

MaxCharges == 6

\* canUseGrab, abilities.js:49-51.
CanUseGrab(st) == st.grabCount > 0 /\ ~st.isGrabbing

\* A faulty executeGrab: canUseGrab is not asked.
ExecuteGrabUnguarded(st) ==
    [st EXCEPT !.isGrabbing = TRUE, !.grabCount = @ - 1, !.isPaused = TRUE,
               !.clawAbove = 1]

\* executeGrab, abilities.js:68-126, on a game whose ball exists, with
\* pauseGame(true) (part_000:293-305) and setClawPosition.
ExecuteGrabOn(st) ==
    IF ~CanUseGrab(st) THEN st
    ELSE [st EXCEPT !.isGrabbing = TRUE, !.grabCount = @ - 1,
                    !.isPaused = TRUE, !.clawAbove = 1]

\* pauseGame(false) and endGrab(), config.js:320-327 and
\* abilities.js:247-293.
EndGrabOn(st) ==
    [st EXCEPT !.isPaused = FALSE, !.isGrabbing = FALSE, !.clawAbove = 0]

\* addGrab, abilities.js:40-43.
AddGrabOn(st) == [st EXCEPT !.grabCount = @ + 1]

\* restartGame, part_000:343-383, on the grab state: ballReleased = false,
\* resetClaw and resetAbilities (abilities.js:229-234); isPaused is left
\* alone.
ResetAbilitiesOn(st) ==
    [st EXCEPT !.grabCount = 0, !.isGrabbing = FALSE, !.ballReleased = FALSE,
               !.clawAbove = ShipHeight - BallHeight]

\* The space key while the ball hangs under the ship, config.js:330-339.
ReleaseBallOn(st) == [st EXCEPT !.ballReleased = TRUE]

InitExecute ==
    /\ InitWithPlatforms(BallCourse)
    /\ \E n \in 0..MaxCharges, above \in {0, 1, ShipHeight - BallHeight} :
          LET st == [grabCount |-> n, isGrabbing |-> FALSE,
                     isPaused |-> FALSE, clawAbove |-> above,
                     ballReleased |-> (above # ShipHeight - BallHeight)]
          IN  probe = [fn |-> "grab", op |-> "none", before |-> st, st |-> st]

\* The triple tap and the grab button once the ball is let go,
\* config.js:302-306 and 905-908, whatever canUseGrab says.
ExecuteAlone ==
    /\ probe.fn = "grab"
    /\ probe.st.ballReleased
    /\ probe' = [probe EXCEPT !.op = "executeGrab", !.before = probe.st,
                              !.st = ExecuteGrabOn(probe.st)]
    /\ UNCHANGED programVars

\* The space key while the ball is grabbed.
EndGrabAlone ==
    /\ probe.fn = "grab"
    /\ probe.st.isGrabbing
    /\ probe' = [probe EXCEPT !.op = "endGrab", !.before = probe.st,
                              !.st = EndGrabOn(probe.st)]
    /\ UNCHANGED programVars

\* The space key while the ball hangs under the ship.
ReleaseAlone ==
    /\ probe.fn = "grab"
    /\ ~probe.st.isGrabbing /\ ~probe.st.ballReleased
    /\ probe' = [probe EXCEPT !.op = "release", !.before = probe.st,
                              !.st = ReleaseBallOn(probe.st)]
    /\ UNCHANGED programVars

\* A grab-charge power-up touched; the tick does not run while paused.
AddGrabAlone ==
    /\ probe.fn = "grab"
    /\ ~probe.st.isPaused
    /\ probe.st.grabCount < MaxCharges
    /\ probe' = [probe EXCEPT !.op = "addGrab", !.before = probe.st,
                              !.st = AddGrabOn(probe.st)]
    /\ UNCHANGED programVars

\* The R key.
ResetAbilitiesAlone ==
    /\ probe.fn = "grab"
    /\ probe' = [probe EXCEPT !.op = "restart", !.before = probe.st,
                              !.st = ResetAbilitiesOn(probe.st)]
    /\ UNCHANGED programVars

NextExecute ==
    \/ ExecuteAlone
    \/ EndGrabAlone
    \/ ReleaseAlone
    \/ AddGrabAlone
    \/ ResetAbilitiesAlone

SpecExecute == InitExecute /\ [][NextExecute]_vars

-----------------------------------------------------------------------------
(* The jetpack's fuel on its own (SpecFuel): the physics part of the tick, *)
(* the jump key, the fuel power-up and restartGame applied to the fuel and *)
(* the jetpack flag kept in probe.                                         *)

\* Vertical velocities of the ball at the start of a tick, clear of the
\* terminal velocity.
FuelVelocities == {0 - 60, 0, jumpForce}

InitFuel ==
    /\ InitWithPlatforms(BallCourse)
    /\ probe = [fn |-> "fuel", op |-> "none", fuel |-> 0, active |-> FALSE,
                before |-> [fuel |-> 0, active |-> FALSE],
                dt |-> 0, vyBefore |-> 0, vyMoved |-> 0, taken |-> "none"]

\* A tick with the ball let go and in the air, part_000:453-473 and 538-553:
\* updateBallPosition, updateJetpack and the power-up touched.
FuelTick ==
    /\ probe.fn = "fuel"
    /\ \E vy \in FuelVelocities, dt \in DeltaFrames,
          taken \in {"none", "jetpack"} :
          LET b == [BallReset EXCEPT !.vy = vy, !.isJumping = TRUE]
              moved == UpdateBallPosition(b, FALSE, dt, probe.active,
                                          probe.fuel, FALSE, FALSE)
              jet == UpdateJetpack(moved, probe.active, probe.fuel)
          IN  probe' = [probe EXCEPT
                           !.op = "tick",
                           !.before = [fuel |-> probe.fuel,
                                       active |-> probe.active],
                           !.dt = dt, !.vyBefore = vy, !.vyMoved = moved.vy,
                           !.taken = taken,
                           !.fuel = IF taken = "jetpack"
                                    THEN jetpackPickupFuel ELSE jet.fuel]
    /\ UNCHANGED programVars

\* setJetpackActive(active), part_000:272-279, from the jump key pressed
\* (config.js:341-345) and let go (config.js:422).
SetJetpackActive(active) ==
    /\ probe.fn = "fuel"
    /\ probe' = [probe EXCEPT
                    !.op = "key",
                    !.before = [fuel |-> probe.fuel, active |-> probe.active],
                    !.active = active /\ probe.fuel > 0]
    /\ UNCHANGED programVars

JetKeyDown == SetJetpackActive(TRUE)

JetKeyUp == SetJetpackActive(FALSE)

\* restartGame, part_000:351-352: jetpackFuel = 0, isJetpackActive = false.
FuelRestart ==
    /\ probe.fn = "fuel"
    /\ probe' = [probe EXCEPT
                    !.op = "restart",
                    !.before = [fuel |-> probe.fuel, active |-> probe.active],
                    !.fuel = 0, !.active = FALSE]
    /\ UNCHANGED programVars

NextFuel ==
    \/ FuelTick
    \/ JetKeyDown
    \/ JetKeyUp
    \/ FuelRestart

SpecFuel == InitFuel /\ [][NextFuel]_vars

-----------------------------------------------------------------------------
(* addPlatformsAsNeeded followed to its end, helpers.js:1113-1117: every   *)
(* iteration of the while loop is one step, from platform sets, frontiers  *)
(* and lanes drawn from bounded sets.                                      *)

\* Platform sets at the call: none (the module just loaded or reset, or
\* every platform cleaned up), the starting trampoline, a course.
NeededPlatformSets == {<<>>, <<StartTrampoline>>, BallCourse}

\* Frontier z at the call: the origin, the middle of the stretch, just
\* before platformSpawnZ, on it and past it.
NeededFrontiers ==
    {0, platformSpawnZ \div 2, platformSpawnZ + 10, platformSpawnZ + 1,
     platformSpawnZ, platformSpawnZ - 5}

\* Lanes at the call: the middle lane and both edge lanes.
NeededLanes == {"center", "far-far-left", "far-far-right"}

\* The draws of the loop's createPlatform calls: the shortest and the
\* longest gap, the platform keeps the height.
NeededDraws ==
    {[BaseDraw EXCEPT !.heightVariation = 90, !.gapRand = g] : g \in {0, 99}}

InitNeeded ==
    /\ \E ps \in NeededPlatformSets, z \in NeededFrontiers, lane \in NeededLanes :
          /\ platforms = ps
          /\ lastPlatformPosition = [y |-> 0, z |-> z]
          /\ lastPlatformType = lane
          /\ laneTrace = [prev |-> lane, new |-> lane]
    /\ genMode = "idle"
    /\ genLeft = 0
    /\ nextLevelGenerated = FALSE
    /\ created = 0
    /\ spawnTrace = [prev |-> 0, last |-> 0]
    /\ level = 1
    /\ InitBallState
    /\ powerUpsAhead = {}
    /\ probe = [fn |-> "needed", firsts |-> 0, first |-> FALSE]

\* One iteration of the while loop, helpers.js:1114-1116, with the branch
\* createPlatform took kept in probe: first is whether this call built the
\* start platform (helpers.js:398-433), firsts counts these calls.
NeededStep ==
    /\ genMode = "asNeeded"
    /\ probe.fn = "needed"
    /\ lastPlatformPosition.z > platformSpawnZ
    /\ \E d \in NeededDraws :
          LET new == CreatedPlatform(platforms, FALSE, level, d,
                                     lastPlatformType, lastPlatformPosition)
          IN  /\ platforms' = Tracked(Append(platforms, new))
              /\ lastPlatformPosition' = [y |-> new.y, z |-> new.z]
              /\ lastPlatformType' = new.type
              /\ spawnTrace' = [prev |-> spawnTrace.last, last |-> new.y]
              /\ laneTrace' = [prev |-> lastPlatformType, new |-> new.type]
    /\ genMode' = IF lastPlatformPosition'.z > platformSpawnZ
                  THEN "asNeeded" ELSE "idle"
    /\ probe' = [probe EXCEPT
                    !.first = (platforms = <<>>),
                    !.firsts = IF platforms = <<>> THEN @ + 1 ELSE @]
    /\ UNCHANGED <<genLeft, nextLevelGenerated, created, level>>
    /\ UNCHANGED <<speed, jetpackFuel, isJetpackActive, gameStarted,
                   ballReleased, gameOver, gameState, ballVelocityY, isJumping,
                   hasDoubleJumped, jumpChargeTime, airEntryMethod,
                   wasOnPlatform, extraJumps, ballOn, keysSpace,
                   touchJumpActive, virtualSpace, powerUpsAhead,
                   collisionResult, lastJump, doubleJumps, rearms, isPaused,
                   isGrabbing, grabCount, redFlagPlatformReached, score,
                   distanceTraveled, isGeneratingNextLevel, isTransitioning,
                   timers, ballZ, clawAbove, generations, endGameCalls,
                   tickTrace>>

NextNeeded ==
    \/ AddPlatformsAsNeeded
    \/ NeededStep

\* The loop runs inside one call: an iteration whose test holds is run.
SpecNeeded == InitNeeded /\ [][NextNeeded]_vars /\ WF_vars(NeededStep)

Spec == SpecBall

-----------------------------------------------------------------------------
(* Properties of the platform factory (SpecGen).                           *)

\* Lanes between the lanes of two platforms created one after the other.
LaneStep(prev, new) == Abs(LaneIndex(new) - LaneIndex(prev))

\* C1, as the specification states it: the lane of every platform created
\* after the first is at most two positions away from the lane chosen
\* before it, whatever the previous lane and the draw.
LanesAtMostTwoApart == LaneStep(laneTrace.prev, laneTrace.new) <= 2

SpawnYNonIncreasing == spawnTrace.last <= spawnTrace.prev

\* C4: from an extreme lane the next lane is the single inward neighbour,
\* for the platforms created and for every draw: far-left after
\* far-far-left, far-right after far-far-right, never the same lane again.
ExtremeLaneTurnsInward ==
    /\ laneTrace.prev = "far-far-left" => laneTrace.new = "far-left"
    /\ laneTrace.prev = "far-far-right" => laneTrace.new = "far-right"
    /\ \A r \in 0..99 :
          /\ lastPlatformType = "far-far-left" =>
                NextLane(lastPlatformType, r) = "far-left"
          /\ lastPlatformType = "far-far-right" =>
                NextLane(lastPlatformType, r) = "far-right"

\* A platform was created from the far-far-left lane.
CreatedFromExtremeLane ==
    /\ created = 2
    /\ laneTrace = [prev |-> "far-far-left", new |-> "far-left"]

\* A fresh start has just been made: createStartingPlatforms is at the
\* entry of its loop.
FreshStart == genMode = "starting" /\ genLeft = platformsPerLevel

\* The first platform is a rectangle at the origin in the centre lane.
FirstPlatformAtOrigin ==
    /\ Len(platforms) >= 1
    /\ ~platforms[1].isRoundPlatform
    /\ platforms[1].y = 0 /\ platforms[1].z = 0
    /\ platforms[1].type = "center"

\* C13, as the specification states it: on every fresh start (init or
\* restart) the first platform of the platform set is a rectangular
\* platform at the origin with lane center and effect none.
FreshStartPlainPlatform ==
    FreshStart => (FirstPlatformAtOrigin /\ platforms[1].bounceEffect = "none")

\* C13, amended: on every fresh start the first platform of the platform
\* set is the 10 x 10 rectangular speed-boost trampoline at the origin, with
\* lane center and effect forward, and it is the only platform so far.
FreshStartTrampoline ==
    FreshStart =>
        /\ FirstPlatformAtOrigin
        /\ Len(platforms) = 1
        /\ platforms[1].bounceEffect = "forward"
        /\ platforms[1].isTrampoline
        /\ platforms[1].width = 10 /\ platforms[1].depth = 10

\* A fresh start has been made: the trampoline is alone in the platform
\* set and no platform has been created after it.
FreshStartSeen ==
    /\ FreshStart
    /\ created = 0
    /\ platforms = <<StartTrampoline>>

-----------------------------------------------------------------------------
(* Properties of the ball (SpecSpeed, SpecJet, SpecBall).  collisionResult *)
(* is the resolver's report of the frame that has just run: every key and  *)
(* touch event clears it.                                                   *)

\* C5, as the specification states it: after any number of slow-down
\* landings the base speed is at least the configured floor, and therefore
\* positive.
SlowDownKeepsSpeedPositive == speed > 0

\* The resolver reported the ball on a platform with this effect.
ReportedOn(effect) ==
    collisionResult.onPlatform /\ collisionResult.bounceEffect = effect

\* The fixed rebound and the higher base speed.
Boosted ==
    /\ ballVelocityY = (maxJumpForce * 3) \div 2
    /\ speed > collisionResult.speedBefore

\* C6, as the specification states it: in every tick where the resolver
\* reports the ball on a speed-boost trampoline, the vertical velocity
\* after resolution is 1.5 x maxJumpForce and the base speed is greater
\* than before the tick.
BoostReportRebounds == ReportedOn("forward") => Boosted

\* C6, amended: in every tick where the resolver reports the ball on a
\* speed-boost trampoline and the ball is moving down (vy < 0 before
\* resolution), the vertical velocity after resolution is 1.5 x
\* maxJumpForce and the base speed is greater than before the tick.
BoostLandingRebounds ==
    (ReportedOn("forward") /\ collisionResult.vyBefore < 0) => Boosted

\* A ball moving down was resolved on a speed-boost trampoline.
BoostLandingSeen ==
    /\ ReportedOn("forward")
    /\ collisionResult.vyBefore < 0
    /\ speed = collisionResult.speedBefore + speedBoost

\* C7, as the specification states it: at most one double jump is made
\* between two landings, whatever the jump inputs, jetpack activations,
\* fuel depletion and pickups.
AtMostOneDoubleJump == doubleJumps <= 1

\* C7, amended: the double jumps made since the last landing are at most
\* one more than the times the double-jump flag was cleared in the air
\* since then (by the jetpack running dry, by leaving a platform without a
\* jump, by a first jump).
DoubleJumpsWithinRearms == doubleJumps <= 1 + rearms

\* A second double jump in the air after a jump off a platform, a double
\* jump and a jetpack burnt dry, which cleared the flag.
SecondDoubleJumpSeen ==
    /\ doubleJumps = 2
    /\ rearms = 1
    /\ lastJump.kind = "double"
    /\ isJumping
    /\ airEntryMethod = "jumped"
    /\ jetpackFuel = 0

\* C8: every extra jump takes exactly one credit, and the credit is never
\* below 0, under keyboard and touch jump inputs.
ExtraJumpSpendsOne ==
    /\ extraJumps >= 0
    /\ lastJump.kind = "extra" =>
          /\ lastJump.after = lastJump.before - 1
          /\ lastJump.after >= 0
          /\ extraJumps = lastJump.after

\* The last credit was spent on an extra jump.
LastCreditSpent ==
    /\ lastJump = [kind |-> "extra", before |-> 1, after |-> 0]
    /\ extraJumps = 0

\* A ball moving down was resolved on a platform with no effect.
PlainLanding == ReportedOn("none") /\ collisionResult.vyBefore < 0

\* The ball is grounded, its air-entry method and jump flags cleared.
Grounded ==
    /\ ballVelocityY = 0
    /\ airEntryMethod = ""
    /\ ~isJumping
    /\ ~hasDoubleJumped

\* C9, as the specification states it: every landing on a none-effect
\* platform leaves the ball grounded with vy = 0, the air-entry method, the
\* jumping and the double-jump flag cleared, and the jump-charge at 0.
PlainLandingResetsCharge == PlainLanding => (Grounded /\ jumpChargeTime = 0)

\* C9, amended: every landing on a none-effect platform leaves the ball
\* grounded with vy = 0, the air-entry method, the jumping and the
\* double-jump flag cleared, and the jump-charge as the frame's physics
\* left it.
PlainLandingKeepsCharge ==
    PlainLanding =>
        (Grounded /\ jumpChargeTime = collisionResult.chargeBefore)

\* A landing on a none-effect platform with a jump-charge.
ChargedLandingSeen == PlainLanding /\ jumpChargeTime > 0

\* C10: resolving the collision again for a ball the resolver has just
\* put on a platform changes neither the ball's flags and velocity nor
\* the base speed.
LandingIdempotent ==
    collisionResult.onPlatform =>
        LET again == HandlePlatformCollisions(platforms, ballOn, BallNow,
                                              speed)
        IN  again.ball = BallNow /\ again.speed = speed

\* A ball that has landed is resolved on its platform a second time.
GroundedResolvedAgain ==
    /\ PlainLanding
    /\ HandlePlatformCollisions(platforms, ballOn, BallNow, speed).onPlatform


-----------------------------------------------------------------------------
(* Properties of the goal platform (SpecGoal).                             *)

\* The last tick resolved a falling ball onto the goal platform.
GoalLanding ==
    /\ tickTrace.kind = "running"
    /\ collisionResult.onPlatform
    /\ collisionResult.vyBefore < 0
    /\ ballOn # 0
    /\ platforms[ballOn].isRedFlagPlatform

GoalCallMade == tickTrace.completed /\ Len(platforms) >= 1

ResolvedAfterAdvance ==
    [][(ShortTick /\ tickTrace'.kind = "running" /\ ~tickTrace'.completed)
          => tickTrace'.resolvedAgainst = platforms']_vars

\* C19: in every running tick (one that ends in game over included) the
\* order is ball physics, then collision resolution, then moving-platform
\* advancement: the resolver sees the platform positions the tick found.
ResolvedBeforeAdvance ==
    [][(ShortTick /\ tickTrace'.kind \in {"running", "fell"})
          => tickTrace'.resolvedAgainst = platforms]_vars

\* A running tick landed the ball and then moved a platform.
AdvancedAfterResolving ==
    /\ tickTrace.kind = "running"
    /\ ~tickTrace.completed
    /\ collisionResult.onPlatform
    /\ Len(tickTrace.resolvedAgainst) = Len(platforms)
    /\ tickTrace.resolvedAgainst # platforms

-----------------------------------------------------------------------------
(* Properties of the session (SpecSession).                                *)

\* C14: for each level, addPlatformsForNextLevel runs at most once, however
\* long the distance stays between 75% and 100% of the threshold and
\* whenever the delayed reset of the guard fires.
GeneratesOncePerLevel == generations <= 1

\* C15: the level counter goes from L to L + 1 only after the distance
\* travelled has reached distanceForNextLevel * L, and by exactly one.
LevelAdvanceEarned ==
    [][level' > level =>
          /\ level' = level + 1
          /\ distanceTraveled >= distanceForNextLevel * level]_vars

\* C17: after the generation step of every running tick the frontier is at
\* least the spawn threshold ahead of the ball, however far the ball has
\* travelled.
FrontierAheadOfBall ==
    tickTrace.kind = "running" =>
        lastPlatformPosition.z * 8 <= platformSpawnZ * 8 - ballZ

-----------------------------------------------------------------------------
(* Properties of the pause and the grab (SpecGrab).                        *)

\* C16: after gameOver is set, endGame is not called again and no tick
\* changes the ball, the platform set, the base speed or the score until
\* restartGame is invoked.
GameOverFreezesTicks ==
    [][(gameOver /\ ShortTick) =>
          /\ endGameCalls' = endGameCalls
          /\ tickTrace'.ballRise = 0
          /\ UNCHANGED <<ballVelocityY, ballZ, ballOn, platforms, speed,
                         score>>]_vars

\* C20: while the pause flag is set, a tick changes no ball velocity, no
\* ball z position, no platform, no base speed and no score.
PausedTickFreezes ==
    [][(isPaused /\ ShortTick) =>
          UNCHANGED <<ballVelocityY, ballZ, platforms, speed, score>>]_vars

\* A tick ran while the game was paused by a grab: it lifted the held ball
\* to the ship.
PausedTickSeen ==
    /\ isPaused /\ isGrabbing
    /\ gameStarted /\ ~gameOver /\ ballReleased
    /\ tickTrace.kind = "skipped"
    /\ tickTrace.ballRise = 1

-----------------------------------------------------------------------------
(* Properties of the jump chain and the air-entry method (SpecBall,        *)
(* SpecSpeed).                                                             *)

\* The ball is in the air, has double-jumped and has neither a credit nor
\* fuel.
JumpChainExhausted ==
    /\ ballReleased /\ ~gameOver
    /\ ~IsOnPlatform
    /\ hasDoubleJumped
    /\ extraJumps = 0
    /\ jetpackFuel = 0

\* C21: while the jump chain is exhausted, a press of the jump key or of
\* the jump button leaves the ball's velocity, its jumping and double-jump
\* flags, its air-entry method and its credits unchanged.
ExhaustedJumpIsNoOp ==
    [][(JumpChainExhausted /\ (KeyDownSpace \/ JumpTouchStart)) =>
          UNCHANGED <<ballVelocityY, isJumping, hasDoubleJumped,
                      airEntryMethod, extraJumps>>]_vars

\* A press with the key and the button up was refused while the chain was
\* exhausted.
ExhaustedPressSeen ==
    /\ JumpChainExhausted
    /\ ~keysSpace /\ ~touchJumpActive
    /\ lastJump.kind = "refused"

-----------------------------------------------------------------------------
(* Properties of the resolver and the fall check applied on their own      *)
(* (SpecFall).                                                             *)

\* C22: with an empty platform set the resolver reports not grounded and
\* no effect, leaves the ball and the base speed unchanged, and the
\* out-of-bounds check reports false.
EmptySetIsNoCollision ==
    (probe.fn = "resolved" /\ platforms = <<>>) =>
        /\ ~probe.onPlatform
        /\ probe.bounceEffect = "none"
        /\ probe.after = probe.before
        /\ probe.speed = speed
        /\ ~probe.fell

\* The resolver and the fall check ran on the empty set for a ball that
\* is falling far below the origin.
EmptySetResolved ==
    /\ probe.fn = "resolved" /\ platforms = <<>>
    /\ probe.ball.vy < 0 /\ probe.ball.y < -fallThreshold

\* The platforms the fall check measures from: those ahead of the ball or
\* below it, every platform when there is none.
Reference(ps, ball) ==
    LET qualifying == {i \in 1..Len(ps) :
                          ps[i].z <= ball.z \/ ps[i].y <= ball.y}
    IN  IF qualifying = {} THEN 1..Len(ps) ELSE qualifying

WithinReach(p, ball) ==
    /\ IF p.isRoundPlatform
       THEN 10 * Abs(ball.z - p.z) <= 9 * p.radius
       ELSE 10 * Abs(ball.z - p.z) <= 5 * p.depth + 8
    /\ Abs(2 * (ball.y - 1) - (2 * p.y + 1)) <= 1

\* C33: the resolver reports the ball grounded only when its vertical
\* velocity is not positive and it is over a platform, disc or rectangle,
\* with a vertical gap of at most 0.5 to the platform's top; a rising ball
\* is reported not grounded and is left as it was.
RisingBallNeverGrounded ==
    probe.fn = "resolved" =>
        /\ probe.onPlatform =>
              /\ probe.before.vy <= 0
              /\ \E i \in 1..Len(platforms) :
                    WithinReach(platforms[i], probe.ball)
        /\ probe.before.vy > 0 =>
              /\ ~probe.onPlatform
              /\ probe.after = probe.before
              /\ probe.speed = speed

\* A rising ball within reach of the disc and of a rectangle: it passes.
RisingBallPassed ==
    /\ probe.fn = "resolved"
    /\ probe.before.vy > 0
    /\ ~probe.onPlatform
    /\ \E i \in 1..Len(platforms) :
          platforms[i].isRoundPlatform /\ WithinReach(platforms[i], probe.ball)
    /\ \E i \in 1..Len(platforms) :
          ~platforms[i].isRoundPlatform /\ WithinReach(platforms[i], probe.ball)

\* C34: whenever the resolver reports the ball grounded, the ball's y after
\* it is the top of the platform found (its y + 0.5) plus the ball's radius
\* 1, whether the ball was at rest, landing or bouncing.  twiceY is twice
\* that y.
GroundedBallOnSurface ==
    (probe.fn = "resolved" /\ probe.onPlatform) =>
        \E i \in 1..Len(platforms) :
            /\ WithinReach(platforms[i], probe.ball)
            /\ \A j \in 1..(i - 1) : ~WithinReach(platforms[j], probe.ball)
            /\ probe.twiceY = (2 * platforms[i].y + 1) + 2

\* A ball at rest half a unit above the surface is put on it.
RestingBallSnapped ==
    /\ probe.fn = "resolved" /\ probe.onPlatform
    /\ probe.before.vy = 0
    /\ probe.after.vy = 0
    /\ 2 * probe.ball.y = probe.twiceY + 1

\* A bouncing ball is put on the trampoline's surface as well.
BouncingBallSnapped ==
    /\ probe.fn = "resolved" /\ probe.onPlatform
    /\ probe.before.vy < 0
    /\ probe.after.vy > 0
    /\ 2 * probe.ball.y = probe.twiceY + 1


\* ---------------------------------------------------------------------
\* Properties of restartGame applied on its own (SpecRestart)
\* ---------------------------------------------------------------------

\* C24: whatever the session and the ball were, after restartGame the score
\* is 0, the level 1, the speed initialSpeed, the jetpack fuel 0, the
\* extra-jump credit 0, the grab count 0, the velocity 0, the jumping and
\* double-jump flags false, the air-entry method none, gameOver false, and
\* the platforms are the starting ones laid from the origin.
RestartResetsEverything ==
    probe.fn = "restarted" =>
        /\ score = 0
        /\ level = 1
        /\ speed = initialSpeed
        /\ jetpackFuel = 0
        /\ extraJumps = 0
        /\ grabCount = 0
        /\ ballVelocityY = 0
        /\ ~isJumping
        /\ ~hasDoubleJumped
        /\ airEntryMethod = ""
        /\ ~gameOver
        /\ platforms = SessionCourse

\* A restart of a lost session on level 3, with fuel, credit and a grab
\* in hand, the ball double-jumped over another course.
RestartedFromLostSession ==
    /\ probe.fn = "restarted"
    /\ probe.before.score > 0
    /\ probe.before.level > 1
    /\ probe.before.speed # initialSpeed
    /\ probe.before.jetpackFuel > 0
    /\ probe.before.grabCount > 0
    /\ probe.before.gameOver
    /\ probe.before.ball.extraJumps > 0
    /\ probe.before.ball.vy # 0
    /\ probe.before.ball.hasDoubleJumped
    /\ probe.before.ball.airEntryMethod = "jumped"
    /\ probe.before.platforms # SessionCourse

\* ---------------------------------------------------------------------
\* Properties of the bounce and of the air-entry method (SpecSpeed)
\* ---------------------------------------------------------------------

\* The last frame ended in a trampoline bounce.
BouncedLastTick ==
    /\ collisionResult.onPlatform
    /\ collisionResult.bounceEffect \in {"forward", "backward"}

\* C25: a bounce leaves one double jump and no first jump: in the frame
\* after a trampoline bounce, unless the ball lands in it, a jump input in
\* the air still performs a double jump if none was made since the bounce
\* and nothing if one was made (no extra-jump credit in hand).
BounceLeavesOneDoubleJump ==
    [][(BouncedLastTick /\ extraJumps = 0 /\ Update
          /\ ~collisionResult'.onPlatform)
       => JumpKind(BallNow', FALSE, FALSE)
             = (IF hasDoubleJumped THEN "none" ELSE "double")]_vars

\* C26: the air-entry method, once set, is changed by no frame and no
\* input except the frame in which the ball lands.
AirEntryKeptUntilLanding ==
    [][(airEntryMethod # "" /\ ~(Update /\ collisionResult'.onPlatform))
       => airEntryMethod' = airEntryMethod]_vars

\* ---------------------------------------------------------------------
\* Properties of updateBallPosition applied on its own (SpecLeave)
\* ---------------------------------------------------------------------

\* The ball of the probe was on a platform in the frame before, is on none
\* in this one and is not jumping.
ProbeLeftPlatform ==
    /\ probe.before.wasOnPlatform
    /\ ~probe.onPlatformNow
    /\ ~probe.before.isJumping

\* C27: updateBallPosition sets the air-entry method to rolled (|vx| over
\* 0.01) or fell (otherwise) exactly when the ball was on a platform in the
\* frame before, is on none now and is not jumping; in every other case it
\* leaves the method as it was.
LeftPlatformClassified ==
    probe.fn = "moved" =>
        probe.after.airEntryMethod =
            IF ProbeLeftPlatform
            THEN (IF probe.fast THEN "rolled" ELSE "fell")
            ELSE probe.before.airEntryMethod

\* A ball at rest that rolled off sideways is seen.
RolledOffSeen ==
    /\ probe.fn = "moved"
    /\ ProbeLeftPlatform
    /\ probe.fast
    /\ probe.before.airEntryMethod = ""
    /\ probe.after.airEntryMethod = "rolled"

\* ---------------------------------------------------------------------
\* Properties of the jump made after a fall (SpecJet)
\* ---------------------------------------------------------------------

\* The ball fell off a platform and has not jumped since; the space key is
\* up.
FellNoJump ==
    /\ ballReleased /\ ~gameOver /\ ~isGrabbing
    /\ airEntryMethod = "fell"
    /\ ~isJumping
    /\ ~IsOnPlatform
    /\ ~keysSpace

\* A first jump: jump(false).
FirstJumpMade ==
    /\ lastJump'.kind = "first"
    /\ ballVelocityY' = jumpForce
    /\ isJumping'
    /\ ~hasDoubleJumped'

\* The ball that jumped after a fall has made its double jump.
FellDoubleJumpSpent ==
    /\ airEntryMethod = "fell"
    /\ isJumping
    /\ hasDoubleJumped

\* The frame in which the ball lands, and the step in which the jetpack
\* burns its last fuel.
LandingFrame == Update /\ collisionResult'.onPlatform

RunsDry == isJetpackActive /\ jetpackFuel > 0 /\ jetpackFuel' = 0

\* C28 as stated: after a fall the jump input makes a first jump in the
\* air, which leaves one double jump, and once that double jump is made
\* none is available before the ball lands.
FellJumpThenOneDoubleJump ==
    [][/\ (FellNoJump /\ KeyDownSpace) => FirstJumpMade
       /\ (FellDoubleJumpSpent /\ ~LandingFrame) => hasDoubleJumped']_vars

\* C28, amended: the same with an empty jetpack tank at the key press, and
\* unless the jetpack burns dry in the air, which clears the double-jump
\* flag again.
FellJumpThenOneDoubleJumpUnlessDry ==
    [][/\ (FellNoJump /\ jetpackFuel = 0 /\ KeyDownSpace) => FirstJumpMade
       /\ (FellDoubleJumpSpent /\ ~LandingFrame /\ ~RunsDry)
             => hasDoubleJumped']_vars

\* The double jump made after a first jump in the air.
FellDoubleJumpSeen ==
    /\ FellDoubleJumpSpent
    /\ lastJump.kind = "double"
    /\ doubleJumps = 1
    /\ rearms = 0

\* ---------------------------------------------------------------------
\* Properties of the ball on a moving platform (SpecRide)
\* ---------------------------------------------------------------------

\* C29: in every tick in which the ball is on the moving platform its
\* position is shifted, before gravity, by the platform's position less
\* the position cached by the last advance; and over two ticks in a row
\* in which it rests there the ball's place relative to the platform
\* after the shift is the same: each advance has been handed to the ball
\* once.
RidingKeepsOffset ==
    (probe.fn = "ride" /\ probe.on) =>
        /\ probe.shift = probe.delta
        /\ (probe.rested /\ probe.restedBefore)
              => probe.offset = probe.offsetBefore

\* The ball carried sideways by a platform it stayed on.
CarriedSideways ==
    /\ probe.fn = "ride"
    /\ probe.rested /\ probe.restedBefore
    /\ probe.delta.x > 0
    /\ probe.offset.x # 0

\* ---------------------------------------------------------------------
\* Properties of createPlatform applied on its own (SpecMoving)
\* ---------------------------------------------------------------------

\* The platform created can move: no effect, not the goal, not the first.
EligibleCreated ==
    /\ probe.fn = "created"
    /\ ~probe.first
    /\ ~probe.isRedFlag
    /\ probe.platform.bounceEffect = "none"

\* C30: a platform that can move, created for a level ending in 5 or 4,
\* moves; created for a level ending in 4 it moves horizontally or
\* vertically.
ForcedMovementLevels ==
    EligibleCreated =>
        /\ probe.level % 10 \in {4, 5} => probe.platform.isMovingPlatform
        /\ probe.level % 10 = 4 =>
              probe.platform.movementType \in {"horizontal", "vertical"}

\* A platform of level 14 that moves vertically although neither random
\* draw asked for movement.
ForcedVerticalSeen ==
    /\ EligibleCreated
    /\ probe.level = 14
    /\ probe.draw.moveRoll >= 10
    /\ probe.draw.movementTypeRand = 99
    /\ probe.platform.isMovingPlatform
    /\ probe.platform.movementType = "vertical"

\* A platform that moves although it is a trampoline or the goal.
MovingSpecial(p) ==
    /\ p.isMovingPlatform
    /\ p.bounceEffect \in {"forward", "backward"} \/ p.isRedFlagPlatform

\* C31: no platform is both moving and a speed-boost trampoline, a
\* slow-down trampoline or the goal platform: neither a platform of the
\* set nor the platform createPlatform has just built.
NoMovingTrampolineOrGoal ==
    /\ \A i \in 1..Len(platforms) : ~MovingSpecial(platforms[i])
    /\ probe.fn = "created" => ~MovingSpecial(probe.platform)

\* A slow-down trampoline built for a level ending in 5 with the draw for
\* movement under 0.1: it does not move.
StillTrampolineSeen ==
    /\ probe.fn = "created"
    /\ ~probe.first
    /\ probe.level = 5
    /\ probe.draw.moveRoll < 10
    /\ probe.platform.bounceEffect = "backward"
    /\ ~probe.platform.isMovingPlatform

-----------------------------------------------------------------------------
(* Properties of the power-ups (SpecPickup).                               *)

Untouched(p) == ~Touches(p)

\* The power-ups of the list s that the ball touches and that are of type t.
TouchedOfType(s, t) ==
    Cardinality({ i \in 1..Len(s) : Touches(s[i]) /\ s[i].type = t })

\* C32: every power-up the ball touches is applied once and removed in the
\* same step: the power-ups left are the untouched ones, a fuel power-up
\* sets the fuel to 100, every extra-jump power-up adds 1 to the extra-jump
\* credit and every grab-charge power-up adds 1 to the grab counter.
PickupAppliedOnce ==
    probe.fn = "checked" =>
       LET b == probe.before
           a == probe.after
       IN  /\ a.powerUps = SelectSeq(b.powerUps, Untouched)
           /\ a.jetpackFuel = IF TouchedOfType(b.powerUps, "jetpack") > 0
                              THEN 100 ELSE b.jetpackFuel
           /\ a.extraJumps =
                 b.extraJumps + TouchedOfType(b.powerUps, "extraJump")
           /\ a.grabCount = b.grabCount + TouchedOfType(b.powerUps, "SOS")

\* An extra-jump power-up and a fuel power-up touched in one step: both
\* are applied and the list is left empty.
TwoPowerUpsTaken ==
    /\ probe.fn = "checked"
    /\ Len(probe.before.powerUps) = 2
    /\ TouchedOfType(probe.before.powerUps, "extraJump") = 1
    /\ TouchedOfType(probe.before.powerUps, "jetpack") = 1
    /\ probe.before.jetpackFuel = 40
    /\ probe.after.jetpackFuel = 100
    /\ probe.after.extraJumps = probe.before.extraJumps + 1
    /\ probe.after.powerUps = <<>>

-----------------------------------------------------------------------------
(* Properties of the extra-jump credit (SpecCredit).                       *)

\* A press of the jump key or of the jump button that makes an extra jump.
ExtraJumpUsed ==
    /\ KeyDownSpace \/ JumpTouchStart
    /\ lastJump'.kind = "extra"

\* C35: the extra-jump credit goes down only by 1 with an extra jump or to
\* 0 with a restart, and up only by 1 in a tick that picks up an extra-jump
\* power-up; an extra jump always takes 1 and a restart always leaves 0.
\* Landings, bounces and the other ticks leave it as it is.
CreditChangesOnlyByEvents ==
    [][ /\ extraJumps' < extraJumps =>
              \/ ExtraJumpUsed /\ extraJumps' = extraJumps - 1
              \/ RestartSession /\ extraJumps' = 0
        /\ extraJumps' > extraJumps =>
              /\ Update
              /\ "extraJump" \in powerUpsAhead
              /\ extraJumps' = extraJumps + 1
        /\ ExtraJumpUsed => extraJumps' = extraJumps - 1
        /\ RestartSession => extraJumps' = 0 ]_vars

\* The ball has bounced off the trampoline with an extra-jump credit in
\* hand.
CreditKeptOnLanding ==
    /\ collisionResult.onPlatform
    /\ collisionResult.vyBefore < 0
    /\ collisionResult.bounceEffect = "forward"
    /\ extraJumps > 0

-----------------------------------------------------------------------------
(* Properties of the pause of the grab (SpecGrab).                         *)

\* C36, as the specification states it: whenever the game is paused a grab
\* is in progress, so that the jump key can always lift the pause.
PausedOnlyWhileGrabbing == isPaused => isGrabbing

\* C37, as the specification states it: a restart cancels the level
\* transition in progress, so that from a restart on (level 1, no distance
\* travelled) the level stays 1 as long as the distance travelled is below
\* the threshold of level 1, whatever callbacks were pending.
LevelOneUntilThreshold ==
    [][(level = 1 /\ distanceTraveled < distanceForNextLevel)
          => level' = 1]_vars

-----------------------------------------------------------------------------
(* Properties of the grab applied on its own (SpecExecute).                *)

\* executeGrab called with no charge or during a grab changes nothing, and
\* otherwise takes exactly one charge and sets the grabbing flag; the
\* counter is never negative.
GrabGuarded ==
    /\ probe.st.grabCount >= 0
    /\ (/\ probe.op = "executeGrab"
        /\ probe.before.grabCount = 0 \/ probe.before.isGrabbing) =>
          /\ probe.st.grabCount = probe.before.grabCount
          /\ probe.st.isGrabbing = probe.before.isGrabbing
          /\ probe.st.isPaused = probe.before.isPaused
    /\ (/\ probe.op = "executeGrab"
        /\ probe.before.grabCount > 0 /\ ~probe.before.isGrabbing) =>
          /\ probe.st.grabCount = probe.before.grabCount - 1
          /\ probe.st.isGrabbing

\* C38, as the specification states it: the counter is never negative, a
\* refused executeGrab changes nothing, a successful one takes exactly one
\* charge, and the grabbing flag then stays true until endGrab.
GrabHeldUntilEndGrab ==
    /\ GrabGuarded
    /\ (probe.before.isGrabbing /\ ~probe.st.isGrabbing) =>
          probe.op = "endGrab"

\* C38, amended: the counter is never negative, a refused executeGrab
\* changes nothing, a successful one takes exactly one charge, and the
\* grabbing flag then stays true until endGrab or until a restart, whose
\* resetAbilities clears it.
GrabHeldUntilEndGrabOrRestart ==
    /\ GrabGuarded
    /\ (probe.before.isGrabbing /\ ~probe.st.isGrabbing) =>
          probe.op \in {"endGrab", "restart"}

\* executeGrab called during a grab with a charge left: refused.
GrabRefusedWhileGrabbing ==
    /\ probe.op = "executeGrab"
    /\ probe.before.isGrabbing
    /\ probe.before.grabCount > 0
    /\ probe.st = probe.before

-----------------------------------------------------------------------------
(* Properties of the jetpack's fuel (SpecFuel).                            *)

\* The jetpack burnt in the tick recorded.
BurningTick ==
    probe.op = "tick" /\ probe.before.active /\ probe.before.fuel > 0

\* The fuel is within 0..100, and gravity is left out of exactly the ticks
\* in which the jetpack burns.
FuelInRangeGravitySkipped ==
    /\ probe.fuel \in 0..100
    /\ probe.op = "tick" =>
          probe.vyMoved =
             IF probe.before.active /\ probe.before.fuel > 0
             THEN Max(probe.vyBefore, terminalVelocity)
             ELSE Max(probe.vyBefore - gravity * probe.dt, terminalVelocity)

\* C39, as the specification states it: the fuel is within 0..100, goes
\* down by exactly 1 in each tick in which the jetpack is active with fuel
\* left and never goes down otherwise, and gravity is skipped in those
\* ticks only.
FuelDownOnlyByBurning ==
    /\ FuelInRangeGravitySkipped
    /\ BurningTick => probe.fuel = probe.before.fuel - 1
    /\ probe.fuel < probe.before.fuel => BurningTick

\* C39, amended: the fuel is within 0..100; a tick in which the jetpack is
\* active with fuel left takes exactly 1, unless a fuel power-up is touched
\* in that tick, which leaves 100; the fuel goes down in such ticks and with
\* a restart, which leaves 0, and never otherwise; gravity is skipped in
\* those ticks only.
FuelDownByBurningOrRestart ==
    /\ FuelInRangeGravitySkipped
    /\ probe.op = "tick" =>
          probe.fuel = IF probe.taken = "jetpack" THEN 100
                       ELSE IF BurningTick THEN probe.before.fuel - 1
                       ELSE probe.before.fuel
    /\ probe.fuel < probe.before.fuel =>
          \/ BurningTick /\ probe.fuel = probe.before.fuel - 1
          \/ probe.op = "restart" /\ probe.fuel = 0

\* The last unit of fuel burnt in a tick that left gravity out.
LastFuelBurnt ==
    /\ BurningTick
    /\ probe.before.fuel = 1
    /\ probe.fuel = 0
    /\ probe.vyMoved = probe.vyBefore

\* The iteration just run took the first-platform branch of createPlatform.
StartBranchTaken == probe.fn = "needed" /\ probe'.first

\* C40: addPlatformsAsNeeded terminates whatever the lane, the frontier and
\* the platform set at the call: every iteration moves the frontier z down
\* by at least 6 units unless it takes the first-platform branch, that
\* branch is taken at most once per call, and a loop that was entered is
\* left, with the frontier at or past platformSpawnZ.
AsNeededTerminates ==
    /\ [][NeededStep =>
            \/ StartBranchTaken
            \/ lastPlatformPosition'.z <= lastPlatformPosition.z - 6]_vars
    /\ [](probe.fn = "needed" => probe.firsts <= 1)
    /\ (genMode = "asNeeded" ~>
          (genMode = "idle" /\ lastPlatformPosition.z <= platformSpawnZ))

\* The loop was entered with no platform, built the start platform at the
\* origin and went on to the end of the stretch.
LoopLeftAfterStartPlatform ==
    /\ probe.fn = "needed"
    /\ probe.firsts = 1
    /\ genMode = "idle"
    /\ lastPlatformPosition.z <= platformSpawnZ
    /\ Len(platforms) = MaxTracked

=============================================================================
